---- MODULE Spec2Model ----
(***************************************************************************)
(* Model of the Livy session extension's SessionManager                    *)
(* (src/src/livy/sessionManager.ts): the active-session handle, the log    *)
(* cursor, the persisted session id, and the asynchronous operations that  *)
(* read and write them.  Every await of the source is a suspension point   *)
(* of the model: an operation sits at a label (pc) between two actions,    *)
(* and one action is the synchronous code that runs from one await to the  *)
(* next.  The Livy server is the environment: every request either         *)
(* resolves with an arbitrary well-formed response or rejects.             *)
(***************************************************************************)
EXTENDS Integers, Sequences, FiniteSets, TLC

\* ─── Bounds ────────────────────────────────────────────────────────────────
\* Session ids the server hands out: 1..MaxSessionId.
MaxSessionId == 2
\* The per-invocation request counters saturate at this value.
ReqCap == 2
\* Largest `total` / line count of a log response.
MaxLog == 1

\* ─── Domain ────────────────────────────────────────────────────────────────
\* `undefined` where the source expects a session id.
NoId == 0

SessionIds == 1..MaxSessionId

SessionStates ==
  {"not_started", "starting", "idle", "busy", "shutting_down",
   "error", "dead", "killed", "success"}

StatementStates ==
  {"waiting", "running", "available", "error", "cancelling", "cancelled"}

AuthMethods == {"none", "basic", "bearer", "kerberos"}

\* A LivySession as the manager reads it: its id and its state.
Sessions == [id : SessionIds, state : SessionStates]

\* `null` where the source expects a LivySession.
Null == [id |-> NoId, state |-> "null"]

\* A LivyStatement as the manager reads it.
Statements == [id : {1}, state : StatementStates]

NoStatement == [id |-> 0, state |-> "null"]

\* The manager's asynchronous operations.
Ops == {"createSession", "connectToExisting", "killSession", "killAllSessions",
        "restoreSession", "executeCode", "nextLogs", "getLogs", "tailLogs",
        "listSessions"}

\* The LivyClient methods: one HTTP exchange each.
ClientMethods ==
  {"createSession", "getSession", "deleteSession", "listSessions",
   "createStatement", "getStatement", "cancelStatement", "getLogs"}

VARIABLES
  authMethod,     \* LivyClientConfig.authMethod
  activeSession,  \* SessionManager._activeSession
  logOffset,      \* SessionManager._logOffset
  savedId,        \* workspaceState[WORKSPACE_KEY_SESSION_ID]
  pc,             \* per operation: the await it is suspended at
  phase,          \* per operation: where its pending request() is
  cancelled,      \* per operation: token.isCancellationRequested
  createL,        \* locals of createSession
  connectL,       \* locals of connectToExisting
  killL,          \* locals of killSession
  killAllL,       \* locals of killAllSessions
  restoreL,       \* locals of restoreSession
  execL,          \* locals of executeCode
  logsL,          \* locals of getLogs, nextLogs and tailLogs
  obs,            \* per operation: what this invocation did, as seen from outside
  kerberosServicePrincipal,  \* the setting livy.kerberosServicePrincipal
  credentials,    \* the settings livy.username, livy.password, livy.bearerToken
  wire,           \* the running request() call of the Livy client
  setting,        \* the list setting livy.<field> the dependency commands edit
  hdfs,           \* the running HdfsClient call: its locals, requests, responses
  dep,            \* the running dependency command
  store,          \* DependencyStore: the inputs of a call and what it returned
  restartL        \* the running livy.restartSession command: its locals

managerVars == <<activeSession, logOffset, savedId>>
localVars == <<createL, connectL, killL, killAllL, restoreL, execL, logsL>>
sessionVars == <<managerVars, pc, phase, cancelled, localVars, obs>>
depVars == <<kerberosServicePrincipal, credentials, wire, setting, hdfs, dep, store>>
vars == <<authMethod, sessionVars, depVars, restartL>>

\* ─── Bookkeeping of one invocation ─────────────────────────────────────────
\* What an invocation has done so far: the manager state it started from, the
\* notifications it fired, the client methods it called, the error messages it
\* showed, how it ended, and where it was when the cancel button was pressed
\* (the await, the phase of its request, the polls made until then).
Obs0 ==
  [pre       |-> [active |-> Null, saved |-> NoId, offset |-> 0],
   changed   |-> <<>>,
   completed |-> <<>>,
   reqs      |-> [m \in ClientMethods |-> 0],
   errs      |-> 0,
   result    |-> "none",
   cancelAt  |-> <<"none", "none", 0>>]

Sat(n) == IF n < ReqCap THEN n + 1 ELSE ReqCap

\* this.client.<m>(...) was called.
Called(o, m) == [o EXCEPT !.reqs[m] = Sat(@)]

\* vscode.window.showErrorMessage(...) was called.
Shown(o) == [o EXCEPT !.errs = Sat(@)]

\* this._onSessionChanged.fire({ session: s })
Fired(o, s) == [o EXCEPT !.changed = Append(@, s)]

\* The invocation's promise settled with outcome r.
Ended(o, r) == [o EXCEPT !.result = r]

Begun ==
  [Obs0 EXCEPT !.pre = [active |-> activeSession, saved |-> savedId,
                        offset |-> logOffset]]

\* ─── The transport primitive ───────────────────────────────────────────────
\* request() first awaits buildAuthHeader.  Only the kerberos method suspends
\* there (a native negotiation); the others return within the same turn of the
\* event loop, so their request is on the wire as soon as it is made.
AuthPhase == IF authMethod = "kerberos" THEN "auth" ELSE "http"

\* The abort listener of request() is added in the HTTP phase; an AbortSignal
\* that fired before the listener was added never calls it.
Abortable(op) == phase[op] = "http"

\* Operation op is suspended on client method m and the exchange can settle.
Awaiting(op, m) == pc[op] = m /\ phase[op] \in {"auth", "http"}

Goto(op, label, ph) ==
  /\ pc' = [pc EXCEPT ![op] = label]
  /\ phase' = [phase EXCEPT ![op] = ph]

\* buildAuthHeader resolved: the HTTP exchange starts.
AuthResolved ==
  \E op \in Ops :
    /\ phase[op] = "auth"
    /\ phase' = [phase EXCEPT ![op] = "http"]
    /\ UNCHANGED <<authMethod, restartL, depVars, managerVars, pc, cancelled, localVars, obs>>

\* Serialized use (spec.md section 5): a command starts when no other runs.
Quiescent == \A o \in Ops : pc[o] = "idle"

Settle(op, o, r) ==
  /\ Goto(op, "done", "none")
  /\ obs' = [obs EXCEPT ![op] = Ended(o, r)]

\* ─── createSession ─────────────────────────────────────────────────────────
\* sessionId is session.id, all that is read of the create response once
\* `current` holds it; expired is Date.now() > deadline.
CreateL0 == [sessionId |-> NoId, current |-> Null, expired |-> FALSE]

\* A loop condition that also takes a busy session for a ready one.
IsReadyOrBusy(s) == s.state \in {"idle", "busy"}

\* The loop condition: polling stops at the first snapshot that is idle.
IsReady(s) == s.state = "idle"

\* A failure test that also counts the sessions that are over or going down.
IsOver(s) == s.state \in {"dead", "error", "killed", "success", "shutting_down"}

\* The states that end createSession with "session failed".
IsFailed(s) == s.state \in {"dead", "error", "killed"}

\* The snapshot createSession installs as the active session.
Installed(l) == l.current

\* createSession is called: the create request is made.
BeginCreate ==
  /\ Goto("createSession", "createSession", AuthPhase)
  /\ obs' = [obs EXCEPT !["createSession"] = Called(Begun, "createSession")]
  /\ UNCHANGED <<authMethod, depVars, managerVars, cancelled, localVars>>

\* The createSession command is run while no other operation is.
StartCreate == Quiescent /\ BeginCreate /\ UNCHANGED restartL

\* A poll loop that never looks at the clock.
CreateLoopNoDeadline(l, o) ==
  /\ createL' = l
  /\ IF IsReady(l.current)
       THEN /\ activeSession' = Installed(l)
            /\ savedId' = Installed(l).id
            /\ Goto("createSession", "update", "none")
            /\ obs' = [obs EXCEPT !["createSession"] = o]
            /\ UNCHANGED logOffset
     ELSE IF cancelled["createSession"]
       THEN Settle("createSession", o, "cancelled") /\ UNCHANGED managerVars
     ELSE IF IsFailed(l.current)
       THEN Settle("createSession", Shown(o), "failed") /\ UNCHANGED managerVars
     ELSE /\ Goto("createSession", "delay", "none")
          /\ obs' = [obs EXCEPT !["createSession"] = o]
          /\ UNCHANGED managerVars

\* From the head of the poll loop to the next await, with locals l.
CreateLoop(l, o) ==
  /\ createL' = l
  /\ IF IsReady(l.current)
       THEN /\ activeSession' = Installed(l)
            /\ savedId' = Installed(l).id
            /\ Goto("createSession", "update", "none")
            /\ obs' = [obs EXCEPT !["createSession"] = o]
            /\ UNCHANGED logOffset
     ELSE IF cancelled["createSession"]
       THEN Settle("createSession", o, "cancelled") /\ UNCHANGED managerVars
     ELSE IF IsFailed(l.current)
       THEN Settle("createSession", Shown(o), "failed") /\ UNCHANGED managerVars
     ELSE IF l.expired
       THEN Settle("createSession", Shown(o), "timeout") /\ UNCHANGED managerVars
     ELSE /\ Goto("createSession", "delay", "none")
          /\ obs' = [obs EXCEPT !["createSession"] = o]
          /\ UNCHANGED managerVars

\* The create request resolved with a new session in any state.
CreateResolved ==
  \E s \in Sessions :
    /\ Awaiting("createSession", "createSession")
    /\ phase["createSession"] = "http"
    /\ CreateLoop([sessionId |-> s.id, current |-> s, expired |-> FALSE],
                  obs["createSession"])
    /\ UNCHANGED <<authMethod, restartL, depVars, cancelled, connectL, killL, killAllL, restoreL, execL, logsL>>

\* A catch that also drops the active session.
CreateCatchClearing ==
  /\ Settle("createSession", Shown(obs["createSession"]), "error")
  /\ activeSession' = Null
  /\ UNCHANGED <<authMethod, restartL, depVars, logOffset, savedId, cancelled, localVars>>

\* A catch that sends a failed create request once more.
CreateCatchRetrying ==
  /\ IF pc["createSession"] = "createSession"
       THEN /\ Goto("createSession", "createSession", AuthPhase)
            /\ obs' = [obs EXCEPT !["createSession"] = Called(@, "createSession")]
       ELSE Settle("createSession", Shown(obs["createSession"]), "error")
  /\ UNCHANGED <<authMethod, restartL, depVars, managerVars, cancelled, localVars>>

\* A rejected request of createSession: caught, reported by handleError.
CreateCatch ==
  /\ Settle("createSession", Shown(obs["createSession"]), "error")
  /\ UNCHANGED <<authMethod, restartL, depVars, managerVars, cancelled, localVars>>

\* The create request or a poll request failed (auth, transport or non-2xx).
CreateRejected ==
  /\ \/ Awaiting("createSession", "createSession")
     \/ Awaiting("createSession", "getSession")
  /\ CreateCatch

\* The wall clock passes the deadline while createSession is suspended.
DeadlinePasses ==
  /\ pc["createSession"] \in {"delay", "getSession"}
  /\ ~createL.expired
  /\ createL' = [createL EXCEPT !.expired = TRUE]
  /\ UNCHANGED <<authMethod, restartL, depVars, managerVars, pc, phase, cancelled, connectL, killL,
                 killAllL, restoreL, execL, obs, logsL>>

\* A createSession that polls on every tick of a timer, whether or not the
\* poll before has been answered.
CreateDelayDoneOverlapping ==
  /\ \/ pc["createSession"] = "delay"
     \/ Awaiting("createSession", "getSession")
  /\ IF cancelled["createSession"] /\ pc["createSession"] = "delay"
       THEN Settle("createSession", obs["createSession"], "cancelled")
       ELSE /\ Goto("createSession", "getSession", AuthPhase)
            /\ obs' = [obs EXCEPT !["createSession"] = Called(@, "getSession")]
  /\ UNCHANGED <<authMethod, restartL, depVars, managerVars, cancelled, localVars>>

\* The inter-poll delay ran out: the next poll request is made.
CreateDelayDone ==
  /\ pc["createSession"] = "delay"
  /\ IF cancelled["createSession"]
       THEN Settle("createSession", obs["createSession"], "cancelled")
       ELSE /\ Goto("createSession", "getSession", AuthPhase)
            /\ obs' = [obs EXCEPT !["createSession"] = Called(@, "getSession")]
  /\ UNCHANGED <<authMethod, restartL, depVars, managerVars, cancelled, localVars>>

\* A poll resolved with the session in any state.
CreatePollResolved ==
  \E st \in SessionStates :
    /\ Awaiting("createSession", "getSession")
    /\ phase["createSession"] = "http"
    /\ CreateLoop([createL EXCEPT !.current = [id |-> createL.sessionId, state |-> st]],
                  obs["createSession"])
    /\ UNCHANGED <<authMethod, restartL, depVars, cancelled, connectL, killL, killAllL, restoreL, execL, logsL>>

\* A createSession that installs the session without resetting the cursor.
CreateInstalledKeepingCursor ==
  /\ pc["createSession"] = "update"
  /\ Settle("createSession", Fired(obs["createSession"], createL.current), "success")
  /\ UNCHANGED <<authMethod, restartL, depVars, managerVars, cancelled, localVars>>

\* workspaceState.update resolved: the cursor is reset and listeners are told.
CreateInstalled ==
  /\ pc["createSession"] = "update"
  /\ logOffset' = 0
  /\ Settle("createSession", Fired(obs["createSession"], createL.current), "success")
  /\ UNCHANGED <<authMethod, restartL, depVars, activeSession, savedId, cancelled, localVars>>

\* A cancellation that a pending delay does not hear: the timer runs out
\* first and the loop then sees the flag.
CancelCreateDelayWaits ==
  /\ pc["createSession"] \notin {"idle", "done"}
  /\ ~cancelled["createSession"]
  /\ cancelled' = [cancelled EXCEPT !["createSession"] = TRUE]
  /\ LET o == [obs["createSession"] EXCEPT
                 !.cancelAt = <<pc["createSession"], phase["createSession"],
                                obs["createSession"].reqs["getSession"]>>]
     IN  IF pc["createSession"] \in {"createSession", "getSession"}
            /\ Abortable("createSession")
           THEN Settle("createSession", Shown(o), "error")
         ELSE /\ obs' = [obs EXCEPT !["createSession"] = o]
              /\ UNCHANGED <<pc, phase>>
  /\ UNCHANGED <<authMethod, restartL, depVars, managerVars, localVars>>

\* The Cancel button of createSession's progress notification is pressed.
\* The token's listener aborts the signal at once: a request in its HTTP phase
\* rejects into the catch around it, a pending delay rejects with nothing
\* around it to catch, and anything else only sees the flag.
CancelCreate ==
  /\ pc["createSession"] \notin {"idle", "done"}
  /\ ~cancelled["createSession"]
  /\ cancelled' = [cancelled EXCEPT !["createSession"] = TRUE]
  /\ LET o == [obs["createSession"] EXCEPT
                 !.cancelAt = <<pc["createSession"], phase["createSession"],
                                obs["createSession"].reqs["getSession"]>>]
     IN  IF pc["createSession"] \in {"createSession", "getSession"}
            /\ Abortable("createSession")
           THEN Settle("createSession", Shown(o), "error")
         ELSE IF pc["createSession"] = "delay"
           THEN Settle("createSession", o, "rejected")
         ELSE /\ obs' = [obs EXCEPT !["createSession"] = o]
              /\ UNCHANGED <<pc, phase>>
  /\ UNCHANGED <<authMethod, restartL, depVars, managerVars, localVars>>

\* ─── The session list ──────────────────────────────────────────────────────
\* A listSessions response, as the manager reads it: the ids of the listed
\* sessions, in the server's order (a session is listed once).
SessionLists ==
  {l \in UNION {[1..n -> SessionIds] : n \in 0..MaxSessionId} :
     \A i, j \in DOMAIN l : i # j => l[i] # l[j]}

\* ─── connectToExisting ─────────────────────────────────────────────────────
ConnectL0 == [sessionId |-> NoId, sessions |-> <<>>, session |-> Null]

\* connectToExisting(id): with an id the session is fetched at once, without
\* one the sessions are listed for the picker.
BeginConnect ==
  \E id \in SessionIds \cup {NoId} :
    /\ connectL' = [ConnectL0 EXCEPT !.sessionId = id]
    /\ IF id = NoId
         THEN /\ Goto("connectToExisting", "listSessions", AuthPhase)
              /\ obs' = [obs EXCEPT !["connectToExisting"] = Called(Begun, "listSessions")]
         ELSE /\ Goto("connectToExisting", "getSession", AuthPhase)
              /\ obs' = [obs EXCEPT !["connectToExisting"] = Called(Begun, "getSession")]
    /\ UNCHANGED <<authMethod, restartL, depVars, managerVars, cancelled, createL, killL, killAllL,
                   restoreL, execL, logsL>>

\* The connectToExisting command is run while no other operation is.
StartConnect == Quiescent /\ BeginConnect

\* The list arrived: nothing to pick from, or the picker opens.
ConnectListed ==
  \E l \in SessionLists :
    /\ Awaiting("connectToExisting", "listSessions")
    /\ phase["connectToExisting"] = "http"
    /\ connectL' = [connectL EXCEPT !.sessions = l]
    /\ IF Len(l) = 0
         THEN Settle("connectToExisting", obs["connectToExisting"], "empty")
         ELSE /\ Goto("connectToExisting", "showQuickPick", "none")
              /\ UNCHANGED obs
    /\ UNCHANGED <<authMethod, restartL, depVars, managerVars, cancelled, createL, killL, killAllL,
                   restoreL, execL, logsL>>

\* The picker closed: dismissed, or with one of the listed sessions.
ConnectPicked ==
  \E i \in 0..Len(connectL.sessions) :
    /\ pc["connectToExisting"] = "showQuickPick"
    /\ IF i = 0
         THEN /\ Settle("connectToExisting", obs["connectToExisting"], "dismissed")
              /\ UNCHANGED connectL
         ELSE /\ connectL' = [connectL EXCEPT !.sessionId = connectL.sessions[i]]
              /\ Goto("connectToExisting", "getSession", AuthPhase)
              /\ obs' = [obs EXCEPT !["connectToExisting"] = Called(@, "getSession")]
    /\ UNCHANGED <<authMethod, restartL, depVars, managerVars, cancelled, createL, killL, killAllL,
                   restoreL, execL, logsL>>

\* The session was fetched: it becomes the active session, in whatever state.
ConnectResolved ==
  \E st \in SessionStates :
    /\ Awaiting("connectToExisting", "getSession")
    /\ phase["connectToExisting"] = "http"
    /\ LET session == [id |-> connectL.sessionId, state |-> st]
       IN  /\ connectL' = [connectL EXCEPT !.session = session]
           /\ activeSession' = session
           /\ logOffset' = 0
           /\ savedId' = session.id
    /\ Goto("connectToExisting", "update", "none")
    /\ UNCHANGED <<authMethod, restartL, depVars, cancelled, createL, killL, killAllL, restoreL,
                   execL, obs, logsL>>

\* workspaceState.update resolved: listeners are told.
ConnectInstalled ==
  /\ pc["connectToExisting"] = "update"
  /\ Settle("connectToExisting",
            Fired(obs["connectToExisting"], connectL.session), "connected")
  /\ UNCHANGED <<authMethod, restartL, depVars, managerVars, cancelled, localVars>>

\* A failed connect that drops the active session and its saved id.
ConnectRejectedClearing ==
  /\ \/ Awaiting("connectToExisting", "listSessions")
     \/ Awaiting("connectToExisting", "getSession")
  /\ activeSession' = Null
  /\ savedId' = NoId
  /\ Settle("connectToExisting", Shown(obs["connectToExisting"]), "error")
  /\ UNCHANGED <<authMethod, restartL, depVars, logOffset, cancelled, localVars>>

\* The list or the fetch failed: reported by handleError.
ConnectRejected ==
  /\ \/ Awaiting("connectToExisting", "listSessions")
     \/ Awaiting("connectToExisting", "getSession")
  /\ Settle("connectToExisting", Shown(obs["connectToExisting"]), "error")
  /\ UNCHANGED <<authMethod, restartL, depVars, managerVars, cancelled, localVars>>

\* ─── killSession ───────────────────────────────────────────────────────────
KillL0 == [sessionId |-> NoId, deleted |-> "none"]

\* A finally block that clears the handle whatever was killed.
KillsAny(sessionId) == TRUE

\* The test of the finally block: the killed session is the active one.
KillsActive(sessionId) == sessionId = activeSession.id

\* The finally block of killSession, after the delete settled as d.
KillFinally(d, o) ==
  /\ killL' = [killL EXCEPT !.deleted = d]
  /\ IF KillsActive(killL.sessionId)
       THEN /\ activeSession' = Null
            /\ savedId' = NoId
            /\ Goto("killSession", "update", "none")
            /\ obs' = [obs EXCEPT !["killSession"] = o]
            /\ UNCHANGED logOffset
       ELSE Settle("killSession", o, d) /\ UNCHANGED managerVars

\* killSession(id): id defaults to the active session's; with neither there
\* is nothing to kill and no request is made.
KillSession(id) ==
  /\ LET sessionId == IF id # NoId THEN id ELSE activeSession.id
     IN  /\ killL' = [KillL0 EXCEPT !.sessionId = sessionId]
         /\ IF sessionId = NoId
              THEN Settle("killSession", Shown(Begun), "noSession")
              ELSE /\ Goto("killSession", "deleteSession", AuthPhase)
                   /\ obs' = [obs EXCEPT !["killSession"] = Called(Begun, "deleteSession")]
  /\ UNCHANGED <<authMethod, depVars, managerVars, cancelled, createL, connectL, killAllL,
                 restoreL, execL, logsL>>

\* A command calls killSession, with an id or without.
BeginKill == \E id \in SessionIds \cup {NoId} : KillSession(id)

\* The killSession command is run while no other operation is.
StartKill == Quiescent /\ BeginKill /\ UNCHANGED restartL

\* The delete succeeded.
KillResolved ==
  /\ Awaiting("killSession", "deleteSession")
  /\ phase["killSession"] = "http"
  /\ KillFinally("killed", obs["killSession"])
  /\ UNCHANGED <<authMethod, restartL, depVars, cancelled, createL, connectL, killAllL, restoreL, execL, logsL>>

\* The delete failed (for one, 404 for a session already gone).
KillRejected ==
  /\ Awaiting("killSession", "deleteSession")
  /\ KillFinally("failed", Shown(obs["killSession"]))
  /\ UNCHANGED <<authMethod, restartL, depVars, cancelled, createL, connectL, killAllL, restoreL, execL, logsL>>

\* A finally block that clears the handle and tells no listener.
KillClearedSilently ==
  /\ pc["killSession"] = "update"
  /\ Settle("killSession", obs["killSession"], killL.deleted)
  /\ UNCHANGED <<authMethod, restartL, depVars, managerVars, cancelled, localVars>>

\* workspaceState.update resolved: listeners are told the session is gone.
KillCleared ==
  /\ pc["killSession"] = "update"
  /\ Settle("killSession", Fired(obs["killSession"], Null), killL.deleted)
  /\ UNCHANGED <<authMethod, restartL, depVars, managerVars, cancelled, localVars>>

\* ─── killAllSessions ───────────────────────────────────────────────────────
\* sessions, killed: the locals of that name; next: the position of the loop;
\* answer: what the confirmation prompt returned;
\* deleted: the ids deleteSession was called with, in call order; settled: how
\* each of those calls ended.
KillAllL0 ==
  [sessions |-> <<>>, answer |-> "none", next |-> 0, killed |-> 0, deleted |-> <<>>,
   settled |-> <<>>]

\* A count that misses the delete that just succeeded.
NotCounted(killed) == killed

\* The number killAllSessions reports after one more delete that succeeded.
Counted(killed) == killed + 1

BeginKillAll ==
  /\ Goto("killAllSessions", "listSessions", AuthPhase)
  /\ obs' = [obs EXCEPT !["killAllSessions"] = Called(Begun, "listSessions")]
  /\ UNCHANGED <<authMethod, restartL, depVars, managerVars, cancelled, localVars>>

\* The killAllSessions command is run while no other operation is.
StartKillAll == Quiescent /\ BeginKillAll

\* The list arrived: nothing to kill, or the confirmation prompt opens.
KillAllListed ==
  \E l \in SessionLists :
    /\ Awaiting("killAllSessions", "listSessions")
    /\ phase["killAllSessions"] = "http"
    /\ killAllL' = [killAllL EXCEPT !.sessions = l]
    /\ IF Len(l) = 0
         THEN Settle("killAllSessions", obs["killAllSessions"], "empty")
         ELSE /\ Goto("killAllSessions", "showWarningMessage", "none")
              /\ UNCHANGED obs
    /\ UNCHANGED <<authMethod, restartL, depVars, managerVars, cancelled, createL, connectL, killL,
                   restoreL, execL, logsL>>

KillAllListRejected ==
  /\ Awaiting("killAllSessions", "listSessions")
  /\ Settle("killAllSessions", Shown(obs["killAllSessions"]), "error")
  /\ UNCHANGED <<authMethod, restartL, depVars, managerVars, cancelled, localVars>>

\* A killAllSessions that takes the closing of the prompt, however it was
\* closed, as the confirmation.
KillAllAnsweredAny ==
  \E answer \in {"Kill All", "undefined"} :
    /\ pc["killAllSessions"] = "showWarningMessage"
    /\ killAllL' = [killAllL EXCEPT
                      !.answer = answer, !.next = 1, !.killed = 0,
                      !.deleted = <<killAllL.sessions[1]>>]
    /\ Goto("killAllSessions", "deleteSession", AuthPhase)
    /\ obs' = [obs EXCEPT !["killAllSessions"] = Called(@, "deleteSession")]
    /\ UNCHANGED <<authMethod, restartL, depVars, managerVars, cancelled, createL, connectL, killL,
                   restoreL, execL, logsL>>

\* The prompt closed: anything but 'Kill All' ends the command; 'Kill All'
\* starts the loop with the delete of the first listed session.
KillAllAnswered ==
  \E answer \in {"Kill All", "undefined"} :
    /\ pc["killAllSessions"] = "showWarningMessage"
    /\ IF answer # "Kill All"
         THEN /\ Settle("killAllSessions", obs["killAllSessions"], "declined")
              /\ killAllL' = [killAllL EXCEPT !.answer = answer]
         ELSE /\ killAllL' = [killAllL EXCEPT
                                !.answer = answer, !.next = 1, !.killed = 0,
                                !.deleted = <<killAllL.sessions[1]>>]
              /\ Goto("killAllSessions", "deleteSession", AuthPhase)
              /\ obs' = [obs EXCEPT !["killAllSessions"] = Called(@, "deleteSession")]
    /\ UNCHANGED <<authMethod, restartL, depVars, managerVars, cancelled, createL, connectL, killL,
                   restoreL, execL, logsL>>

\* One delete of the loop settled, leaving the count at `killed`: the next
\* listed session is deleted, or after the last one the handle is cleared.
KillAllStep(killed, how) ==
  LET l == [killAllL EXCEPT !.killed = killed, !.settled = Append(@, how)]
  IN  IF l.next < Len(l.sessions)
        THEN /\ killAllL' = [l EXCEPT !.next = l.next + 1,
                                      !.deleted = Append(@, l.sessions[l.next + 1])]
             /\ Goto("killAllSessions", "deleteSession", AuthPhase)
             /\ obs' = [obs EXCEPT !["killAllSessions"] = Called(@, "deleteSession")]
             /\ UNCHANGED managerVars
        ELSE /\ killAllL' = l
             /\ activeSession' = Null
             /\ savedId' = NoId
             /\ Goto("killAllSessions", "update", "none")
             /\ UNCHANGED <<logOffset, obs>>

KillAllDeleted ==
  /\ Awaiting("killAllSessions", "deleteSession")
  /\ phase["killAllSessions"] = "http"
  /\ KillAllStep(Counted(killAllL.killed), "killed")
  /\ UNCHANGED <<authMethod, restartL, depVars, cancelled, createL, connectL, killL, restoreL, execL, logsL>>

\* A delete failed: logged, and the loop goes on.
KillAllDeleteRejected ==
  /\ Awaiting("killAllSessions", "deleteSession")
  /\ KillAllStep(killAllL.killed, "failed")
  /\ UNCHANGED <<authMethod, restartL, depVars, cancelled, createL, connectL, killL, restoreL, execL, logsL>>

\* workspaceState.update resolved: listeners are told, the count is reported.
KillAllCleared ==
  /\ pc["killAllSessions"] = "update"
  /\ Settle("killAllSessions", Fired(obs["killAllSessions"], Null), "killedAll")
  /\ UNCHANGED <<authMethod, restartL, depVars, managerVars, cancelled, localVars>>

\* ─── restoreSession ────────────────────────────────────────────────────────
RestoreL0 == [savedId |-> NoId]

\* activate() calls restoreSession once, before any command can run: without
\* a saved id it returns at once, with one it fetches that session.
StartRestore ==
  /\ pc["restoreSession"] = "activate"
  /\ \A o \in Ops \ {"restoreSession"} : pc[o] = "idle"
  /\ restoreL' = [savedId |-> savedId]
  /\ IF savedId = NoId
       THEN Settle("restoreSession", Begun, "noSavedId")
       ELSE /\ Goto("restoreSession", "getSession", AuthPhase)
            /\ obs' = [obs EXCEPT !["restoreSession"] = Called(Begun, "getSession")]
  /\ UNCHANGED <<authMethod, restartL, depVars, managerVars, cancelled, createL, connectL, killL,
                 killAllL, execL, logsL>>

\* The saved session still exists: it becomes the active session.
RestoreResolved ==
  \E st \in SessionStates :
    /\ Awaiting("restoreSession", "getSession")
    /\ phase["restoreSession"] = "http"
    /\ LET session == [id |-> restoreL.savedId, state |-> st]
       IN  /\ activeSession' = session
           /\ logOffset' = 0
           /\ Settle("restoreSession", Fired(obs["restoreSession"], session), "restored")
    /\ UNCHANGED <<authMethod, restartL, depVars, savedId, cancelled, localVars>>

\* A failed fetch that is reported like any other error.
RestoreRejectedLoud ==
  /\ Awaiting("restoreSession", "getSession")
  /\ savedId' = NoId
  /\ Goto("restoreSession", "update", "none")
  /\ obs' = [obs EXCEPT !["restoreSession"] = Shown(@)]
  /\ UNCHANGED <<authMethod, restartL, depVars, activeSession, logOffset, cancelled, localVars>>

\* A failed fetch that also empties the active-session handle.
RestoreRejectedClearing ==
  /\ Awaiting("restoreSession", "getSession")
  /\ savedId' = NoId
  /\ activeSession' = Null
  /\ Goto("restoreSession", "update", "none")
  /\ UNCHANGED <<authMethod, restartL, depVars, logOffset, cancelled, localVars, obs>>

\* A failed fetch that leaves the saved id in the workspace state.
RestoreRejectedKeeping ==
  /\ Awaiting("restoreSession", "getSession")
  /\ savedId' = savedId
  /\ Goto("restoreSession", "update", "none")
  /\ UNCHANGED <<authMethod, restartL, depVars, activeSession, logOffset, cancelled, localVars, obs>>

\* The fetch failed: the saved id is dropped, and nothing is reported.
RestoreRejected ==
  /\ Awaiting("restoreSession", "getSession")
  /\ savedId' = NoId
  /\ Goto("restoreSession", "update", "none")
  /\ UNCHANGED <<authMethod, restartL, depVars, activeSession, logOffset, cancelled, localVars, obs>>

RestoreDropped ==
  /\ pc["restoreSession"] = "update"
  /\ Settle("restoreSession", obs["restoreSession"], "dropped")
  /\ UNCHANGED <<authMethod, restartL, depVars, managerVars, cancelled, localVars>>

\* ─── executeCode ───────────────────────────────────────────────────────────
\* statId is statement.id, all that is read of the submission's response.
ExecL0 ==
  [sessionId |-> NoId, statId |-> 0, current |-> NoStatement,
   returned |-> NoStatement]

\* A guard that lets every call through.
Unguarded == TRUE

\* The guard of executeCode: there is an active session.
HasSession == activeSession # Null

\* A loop exit that also takes the transient state cancelling for a final one.
IsFinalOrCancelling(st) ==
  st.state \in {"available", "error", "cancelled", "cancelling"}

\* The statement states that end the poll loop.
IsFinal(st) == st.state \in {"available", "error", "cancelled"}

\* this._onStatementComplete.fire({ sessionId, statement })
\* (after: how many 'session changed' events the invocation fired before it)
Completed(o, sessionId, statement) ==
  [o EXCEPT !.completed = Append(@, [sessionId |-> sessionId,
                                     statement |-> statement,
                                     after |-> Len(o.changed)])]

\* executeCode is called: without an active session it returns null at once,
\* with one the statement is submitted to it.
BeginExec ==
  /\ IF ~HasSession
       THEN /\ Settle("executeCode", Shown(Begun), "noSession")
            /\ UNCHANGED execL
       ELSE /\ execL' = [ExecL0 EXCEPT !.sessionId = activeSession.id]
            /\ Goto("executeCode", "createStatement", AuthPhase)
            /\ obs' = [obs EXCEPT !["executeCode"] = Called(Begun, "createStatement")]
  /\ UNCHANGED <<authMethod, restartL, depVars, managerVars, cancelled, createL, connectL, killL,
                 killAllL, restoreL, logsL>>

\* The executeCode command is run while no other operation is.
StartExec == Quiescent /\ BeginExec

\* The head of the poll loop: a cancel seen here is passed on to the server,
\* otherwise the loop waits out one interval.
ExecLoop(o) ==
  IF cancelled["executeCode"]
    THEN /\ Goto("executeCode", "cancelStatement", AuthPhase)
         /\ obs' = [obs EXCEPT !["executeCode"] = Called(o, "cancelStatement")]
    ELSE /\ Goto("executeCode", "delay", "none")
         /\ obs' = [obs EXCEPT !["executeCode"] = o]

\* The statement was created, in any state.
ExecSubmitted ==
  \E s \in Statements :
    /\ Awaiting("executeCode", "createStatement")
    /\ phase["executeCode"] = "http"
    /\ execL' = [execL EXCEPT !.statId = s.id]
    /\ ExecLoop(obs["executeCode"])
    /\ UNCHANGED <<authMethod, restartL, depVars, managerVars, cancelled, createL, connectL, killL,
                   killAllL, restoreL, logsL>>

\* The submission or a poll failed: reported by handleError, null is returned.
ExecRejected ==
  /\ \/ Awaiting("executeCode", "createStatement")
     \/ Awaiting("executeCode", "getStatement")
  /\ Settle("executeCode", Shown(obs["executeCode"]), "error")
  /\ UNCHANGED <<authMethod, restartL, depVars, managerVars, cancelled, localVars>>

\* The cancel request settled, either way: null is returned.
ExecCancelSettled ==
  /\ Awaiting("executeCode", "cancelStatement")
  /\ Settle("executeCode", obs["executeCode"], "aborted")
  /\ UNCHANGED <<authMethod, restartL, depVars, managerVars, cancelled, localVars>>

\* The inter-poll delay ran out: the statement is fetched.
ExecDelayDone ==
  /\ pc["executeCode"] = "delay"
  /\ IF cancelled["executeCode"]
       THEN Settle("executeCode", obs["executeCode"], "cancelled")
       ELSE /\ Goto("executeCode", "getStatement", AuthPhase)
            /\ obs' = [obs EXCEPT !["executeCode"] = Called(@, "getStatement")]
  /\ UNCHANGED <<authMethod, restartL, depVars, managerVars, cancelled, localVars>>

\* A poll resolved with the statement in any state: a final state starts the
\* refresh of the active session, any other goes round the loop.
ExecPollResolved ==
  \E st \in StatementStates :
    /\ Awaiting("executeCode", "getStatement")
    /\ phase["executeCode"] = "http"
    /\ LET current == [id |-> execL.statId, state |-> st]
       IN  /\ execL' = [execL EXCEPT !.current = current]
           /\ IF IsFinal(current)
                THEN /\ Goto("executeCode", "getSession", AuthPhase)
                     /\ obs' = [obs EXCEPT !["executeCode"] = Called(@, "getSession")]
                ELSE ExecLoop(obs["executeCode"])
    /\ UNCHANGED <<authMethod, restartL, depVars, managerVars, cancelled, createL, connectL, killL,
                   killAllL, restoreL, logsL>>

\* The refresh resolved: the fetched snapshot becomes the active session,
\* then the statement is announced and returned.
ExecRefreshed ==
  \E st \in SessionStates :
    /\ Awaiting("executeCode", "getSession")
    /\ phase["executeCode"] = "http"
    /\ activeSession' = [id |-> execL.sessionId, state |-> st]
    /\ execL' = [execL EXCEPT !.returned = execL.current]
    /\ Settle("executeCode",
              Completed(Fired(obs["executeCode"], activeSession'),
                        execL.sessionId, execL.current),
              "statement")
    /\ UNCHANGED <<authMethod, restartL, depVars, logOffset, savedId, cancelled, createL, connectL,
                   killL, killAllL, restoreL, logsL>>

\* A failed refresh that takes the statement down with it.
ExecRefreshRejectedFatal ==
  /\ Awaiting("executeCode", "getSession")
  /\ Settle("executeCode", Shown(obs["executeCode"]), "error")
  /\ UNCHANGED <<authMethod, restartL, depVars, managerVars, cancelled, localVars>>

\* The refresh failed: ignored; the statement is announced and returned.
ExecRefreshRejected ==
  /\ Awaiting("executeCode", "getSession")
  /\ execL' = [execL EXCEPT !.returned = execL.current]
  /\ Settle("executeCode",
            Completed(obs["executeCode"], execL.sessionId, execL.current),
            "statement")
  /\ UNCHANGED <<authMethod, restartL, depVars, managerVars, cancelled, createL, connectL, killL,
                 killAllL, restoreL, logsL>>

\* The Cancel button of executeCode's progress indicator is pressed.  The
\* submission and the polls carry the abort signal, the delay rejects with
\* nothing around it to catch, the cancel request and the refresh carry no
\* signal.
CancelExec ==
  /\ pc["executeCode"] \notin {"idle", "done"}
  /\ ~cancelled["executeCode"]
  /\ cancelled' = [cancelled EXCEPT !["executeCode"] = TRUE]
  /\ LET o == [obs["executeCode"] EXCEPT
                 !.cancelAt = <<pc["executeCode"], phase["executeCode"],
                                obs["executeCode"].reqs["getStatement"]>>]
     IN  IF pc["executeCode"] \in {"createStatement", "getStatement"}
            /\ Abortable("executeCode")
           THEN Settle("executeCode", Shown(o), "error")
         ELSE IF pc["executeCode"] = "delay"
           THEN Settle("executeCode", o, "rejected")
         ELSE /\ obs' = [obs EXCEPT !["executeCode"] = o]
              /\ UNCHANGED <<pc, phase>>
  /\ UNCHANGED <<authMethod, restartL, depVars, managerVars, localVars>>

\* ─── Logs ──────────────────────────────────────────────────────────────────
LOG_SIZE == 100

\* fetches: the (from, size) pairs client.getLogs was called with, in order;
\* probe: the total the probe of tailLogs reported; res: the LogResponse
\* getLogs returned, as read: its `from` and the number of its lines.
LogsL0 == [fetches |-> <<>>, probe |-> 0, res |-> [from |-> 0, n |-> 0]]

\* nextLogs is called: getLogs(undefined, this._logOffset, LOG_SIZE).
BeginNextLogs ==
  /\ IF activeSession.id = NoId
       THEN /\ Settle("nextLogs", Shown(Begun), "noSession")
            /\ UNCHANGED logsL
       ELSE /\ Goto("nextLogs", "getLogs", AuthPhase)
            /\ obs' = [obs EXCEPT !["nextLogs"] = Called(Begun, "getLogs")]
            /\ logsL' = [LogsL0 EXCEPT
                           !.fetches = <<[from |-> logOffset, size |-> LOG_SIZE]>>]
  /\ UNCHANGED <<authMethod, restartL, depVars, managerVars, cancelled, createL, connectL,
                 killL, killAllL, restoreL, execL>>

\* The nextLogs command is run while no other operation is.
StartNextLogs == Quiescent /\ BeginNextLogs

\* A nextLogs that moves the cursor to the page's offset, not past its lines.
NextLogsResolvedStuck ==
  \E from \in 0..MaxLog :
    \E n \in 0..(MaxLog - from) :
      /\ Awaiting("nextLogs", "getLogs")
      /\ phase["nextLogs"] = "http"
      /\ logsL' = [logsL EXCEPT !.res = [from |-> from, n |-> n]]
      /\ logOffset' = from
      /\ Settle("nextLogs", obs["nextLogs"], "shown")
      /\ UNCHANGED <<authMethod, restartL, depVars, activeSession, savedId, cancelled,
                     createL, connectL, killL, killAllL, restoreL, execL>>

\* The page arrived: `from` and the number of lines move the cursor.
NextLogsResolved ==
  \E from \in 0..MaxLog :
    \E n \in 0..(MaxLog - from) :
      /\ Awaiting("nextLogs", "getLogs")
      /\ phase["nextLogs"] = "http"
      /\ logsL' = [logsL EXCEPT !.res = [from |-> from, n |-> n]]
      /\ logOffset' = from + n
      /\ Settle("nextLogs", obs["nextLogs"], "shown")
      /\ UNCHANGED <<authMethod, restartL, depVars, activeSession, savedId, cancelled,
                     createL, connectL, killL, killAllL, restoreL, execL>>

NextLogsRejected ==
  /\ Awaiting("nextLogs", "getLogs")
  /\ Settle("nextLogs", Shown(obs["nextLogs"]), "error")
  /\ UNCHANGED <<authMethod, restartL, depVars, managerVars, cancelled, localVars>>

\* 'Show Livy Logs' calls getLogs(): the active session's log from 0, or an
\* error message without a session; 'Tail Livy Logs' calls tailLogs(), which
\* first probes the log with a fetch of one line from 0.
StartLogs ==
  \E op \in {"getLogs", "tailLogs"} :
    /\ Quiescent
    /\ IF activeSession.id = NoId
         THEN /\ Settle(op, Shown(Begun), "noSession")
              /\ UNCHANGED logsL
         ELSE /\ Goto(op, IF op = "tailLogs" THEN "probe" ELSE "getLogs", AuthPhase)
              /\ obs' = [obs EXCEPT ![op] = Called(Begun, "getLogs")]
              /\ logsL' = [LogsL0 EXCEPT !.fetches =
                             <<[from |-> 0,
                                size |-> IF op = "tailLogs" THEN 1 ELSE LOG_SIZE]>>]
    /\ UNCHANGED <<authMethod, restartL, depVars, managerVars, cancelled, createL, connectL,
                   killL, killAllL, restoreL, execL>>

\* A tailLogs that takes total - LOG_SIZE as the offset, whatever its sign.
TailProbedUnclamped ==
  \E total \in {0, LOG_SIZE} \cup {LOG_SIZE + d : d \in 1..MaxLog} :
    /\ pc["tailLogs"] = "probe"
    /\ phase["tailLogs"] = "http"
    /\ logsL' = [logsL EXCEPT !.probe = total,
                   !.fetches = Append(@, [from |-> total - LOG_SIZE, size |-> LOG_SIZE])]
    /\ Goto("tailLogs", "getLogs", AuthPhase)
    /\ obs' = [obs EXCEPT !["tailLogs"] = Called(@, "getLogs")]
    /\ UNCHANGED <<authMethod, restartL, depVars, managerVars, cancelled, createL, connectL,
                   killL, killAllL, restoreL, execL>>

\* The probe of tailLogs answered with the log's total: the last LOG_SIZE lines
\* are asked for through getLogs(sid, tailFrom, LOG_SIZE).
TailProbed ==
  \E total \in {0, LOG_SIZE} \cup {LOG_SIZE + d : d \in 1..MaxLog} :
    /\ pc["tailLogs"] = "probe"
    /\ phase["tailLogs"] = "http"
    /\ LET tailFrom == IF total - LOG_SIZE > 0 THEN total - LOG_SIZE ELSE 0
       IN  logsL' = [logsL EXCEPT !.probe = total,
                       !.fetches = Append(@, [from |-> tailFrom, size |-> LOG_SIZE])]
    /\ Goto("tailLogs", "getLogs", AuthPhase)
    /\ obs' = [obs EXCEPT !["tailLogs"] = Called(@, "getLogs")]
    /\ UNCHANGED <<authMethod, restartL, depVars, managerVars, cancelled, createL, connectL,
                   killL, killAllL, restoreL, execL>>

\* The probe failed: the catch of tailLogs reports it.
TailProbeRejected ==
  /\ pc["tailLogs"] = "probe"
  /\ phase["tailLogs"] \in {"auth", "http"}
  /\ Settle("tailLogs", Shown(obs["tailLogs"]), "error")
  /\ UNCHANGED <<authMethod, restartL, depVars, managerVars, cancelled, localVars>>

\* The fetch of getLogs, called as a command or by tailLogs, arrived: the
\* lines are written to the output channel and the response is returned.
GetLogsResolved ==
  \E op \in {"getLogs", "tailLogs"}, from \in 0..MaxLog :
    \E n \in 0..(MaxLog - from) :
      /\ Awaiting(op, "getLogs")
      /\ phase[op] = "http"
      /\ logsL' = [logsL EXCEPT !.res = [from |-> from, n |-> n]]
      /\ Settle(op, obs[op], "shown")
      /\ UNCHANGED <<authMethod, restartL, depVars, managerVars, cancelled, createL, connectL,
                     killL, killAllL, restoreL, execL>>

\* That fetch failed: the catch of getLogs reports it and returns null.
GetLogsRejected ==
  \E op \in {"getLogs", "tailLogs"} :
    /\ Awaiting(op, "getLogs")
    /\ Settle(op, Shown(obs[op]), "error")
    /\ UNCHANGED <<authMethod, restartL, depVars, managerVars, cancelled, localVars>>

\* ─── listSessions ──────────────────────────────────────────────────────────
\* The views call manager.listSessions(), which asks the client for the list.
StartListSessions ==
  /\ Quiescent
  /\ Goto("listSessions", "listSessions", AuthPhase)
  /\ obs' = [obs EXCEPT !["listSessions"] = Called(Begun, "listSessions")]
  /\ UNCHANGED <<authMethod, restartL, depVars, managerVars, cancelled, localVars>>

\* The list arrived and is returned.
ListSessionsResolved ==
  /\ Awaiting("listSessions", "listSessions")
  /\ phase["listSessions"] = "http"
  /\ Settle("listSessions", obs["listSessions"], "listed")
  /\ UNCHANGED <<authMethod, restartL, depVars, managerVars, cancelled, localVars>>

\* A listSessions that lets the failure of its request through.
ListSessionsRejectedUncaught ==
  /\ Awaiting("listSessions", "listSessions")
  /\ Settle("listSessions", obs["listSessions"], "rejected")
  /\ UNCHANGED <<authMethod, restartL, depVars, managerVars, cancelled, localVars>>

\* The request failed: reported by handleError, the empty list is returned.
ListSessionsRejected ==
  /\ Awaiting("listSessions", "listSessions")
  /\ Settle("listSessions", Shown(obs["listSessions"]), "error")
  /\ UNCHANGED <<authMethod, restartL, depVars, managerVars, cancelled, localVars>>

\* 'Show Livy Logs' has ended and 'Next Livy Logs' is run next: the caller of
\* getLogs has its result and nextLogs is called, with nothing in between.
ShowThenNext ==
  /\ pc["getLogs"] = "done"
  /\ \A o \in Ops \ {"getLogs"} : pc[o] = "idle"
  /\ LET none == activeSession.id = NoId
     IN  /\ pc' = [pc EXCEPT !["getLogs"] = "idle",
                             !["nextLogs"] = IF none THEN "done" ELSE "getLogs"]
         /\ phase' = [phase EXCEPT !["getLogs"] = "none",
                                   !["nextLogs"] = IF none THEN "none" ELSE AuthPhase]
         /\ obs' = [obs EXCEPT !["getLogs"] = Obs0,
                               !["nextLogs"] = IF none
                                                THEN Ended(Shown(Begun), "noSession")
                                                ELSE Called(Begun, "getLogs")]
         /\ logsL' = IF none THEN LogsL0
                             ELSE [LogsL0 EXCEPT !.fetches =
                                     <<[from |-> logOffset, size |-> LOG_SIZE]>>]
  /\ UNCHANGED <<authMethod, restartL, depVars, managerVars, cancelled, createL, connectL,
                 killL, killAllL, restoreL, execL>>

\* ─── livy.restartSession ───────────────────────────────────────────────────
\* What is read of a LivySession besides id and state: its kind and its name
\* (null for a session created without one).
Kinds == {"pyspark", "spark"}
Names == {"dev"}
NoKind == "undefined"
NoName == "undefined"

\* session: the id of the snapshot taken at the start; kind, name: destructured
\* from it; confirm: the answer of the modal; payload: the body createSession
\* built for the create request.
RestartL0 ==
  [pc |-> "idle", session |-> NoId, kind |-> NoKind, name |-> NoName,
   confirm |-> "none", payload |-> [kind |-> NoKind, name |-> NoName]]

\* The kind and name of the create payload: the option when it is given, else
\* the setting; an empty livy.sessionName counts as none.
Payload(opts, config) ==
  [kind |-> IF opts.kind # NoKind THEN opts.kind ELSE config.defaultKind,
   name |-> IF opts.name # NoName THEN opts.name
            ELSE IF config.sessionName # "" THEN config.sessionName ELSE NoName]

\* The settings livy.defaultKind and livy.sessionName.
Configs == [defaultKind : Kinds, sessionName : Names \cup {""}]

\* The command is run: without an active session it reports and returns, else
\* it keeps kind and name of the session and asks for confirmation.
StartRestart ==
  /\ Quiescent
  /\ restartL.pc = "idle"
  /\ IF activeSession = Null
       THEN restartL' = [RestartL0 EXCEPT !.pc = "done"]
       ELSE \E kind \in Kinds, name \in Names \cup {NoName} :
              restartL' = [RestartL0 EXCEPT !.pc = "confirm",
                                            !.session = activeSession.id,
                                            !.kind = kind, !.name = name]
  /\ UNCHANGED <<authMethod, sessionVars, depVars>>

\* The modal is answered: anything but 'Restart' ends the command, 'Restart'
\* calls killSession with the id of the snapshot.
RestartAnswered ==
  /\ restartL.pc = "confirm"
  /\ \E confirm \in {"Restart", "undefined"} :
       IF confirm # "Restart"
         THEN /\ restartL' = [restartL EXCEPT !.pc = "done", !.confirm = confirm]
              /\ UNCHANGED <<authMethod, sessionVars, depVars>>
         ELSE /\ restartL' = [restartL EXCEPT !.pc = "killSession", !.confirm = confirm]
              /\ KillSession(restartL.session)

\* killSession has returned: createSession is called with the kind and the
\* name kept at the start, and makes its create request.
RestartKilled ==
  /\ restartL.pc = "killSession"
  /\ pc["killSession"] = "done"
  /\ \E config \in Configs :
       restartL' = [restartL EXCEPT
                      !.pc = "createSession",
                      !.payload = Payload([kind |-> restartL.kind,
                                           name |-> restartL.name], config)]
  /\ BeginCreate

\* createSession has returned, and with it the command.
RestartCreated ==
  /\ restartL.pc = "createSession"
  /\ pc["createSession"] = "done"
  /\ restartL' = [restartL EXCEPT !.pc = "done"]
  /\ UNCHANGED <<authMethod, sessionVars, depVars>>

\* ─── HdfsClient ────────────────────────────────────────────────────────────
\* Strings that are taken apart are sequences of tokens: a locator is its
\* scheme prefix, if any, followed by the tokens of its path.  A URL is a
\* record of the host, the path after /webhdfs/v1 and the op of the query.
NameNode == "nn"
DataNodes == {"dn1", "dn2"}
NoUrl == [host |-> "", path |-> <<>>, op |-> ""]

\* resolveUploadDir(username), a directory of the cluster.
UploadDir == "/user/u/livy-deps"
RemoteNames == {"a.py", "b.jar"}

\* const remotePath = `${uploadDir}/${remoteName}`
RemotePath(remoteName) == <<UploadDir, "/", remoteName>>

\* return `hdfs://${remotePath}`
HdfsUri(remoteName) == <<"hdfs://">> \o RemotePath(remoteName)

\* The locators a livy.<field> list can hold: uploaded files, a file reached
\* through webhdfs, a plain path.
Locators ==
  {HdfsUri(n) : n \in RemoteNames} \cup {<<"webhdfs://", "/lib/x.jar">>, <<"/opt/y.zip">>}

\* A delete that sends the locator as it is.
KeepScheme(remotePath) == remotePath

\* barePath of delete: one leading hdfs:// or webhdfs:// is cut off.
StripScheme(remotePath) ==
  IF remotePath # <<>> /\ Head(remotePath) = "hdfs://" THEN Tail(remotePath)
  ELSE IF remotePath # <<>> /\ Head(remotePath) = "webhdfs://" THEN Tail(remotePath)
  ELSE remotePath

\* Buffer.from(s).toString('base64'), s a sequence of bytes: every three
\* bytes become four digits of six bits; a last group of one or two bytes is
\* filled up with zero bits and '=' signs, written 64 here.
RECURSIVE Base64(_)
Base64(bytes) ==
  IF bytes = <<>> THEN <<>>
  ELSE LET n == Len(bytes)
           b1 == bytes[1]
           b2 == IF n >= 2 THEN bytes[2] ELSE 0
           b3 == IF n >= 3 THEN bytes[3] ELSE 0
       IN  <<b1 \div 4,
             (b1 % 4) * 16 + (b2 \div 16),
             IF n >= 2 THEN (b2 % 16) * 4 + (b3 \div 64) ELSE 64,
             IF n >= 3 THEN b3 % 64 ELSE 64>>
           \o (IF n > 3 THEN Base64(SubSeq(bytes, 4, n)) ELSE <<>>)

\* The credentials of the settings, as bytes; 58 is the colon.
Credentials ==
  {[username |-> <<97>>, password |-> <<98>>, bearerToken |-> "token-1"],
   [username |-> <<97, 98>>, password |-> <<99, 100>>, bearerToken |-> "token-2"],
   [username |-> <<255>>, password |-> <<>>, bearerToken |-> ""]}
Credentials0 == [username |-> <<>>, password |-> <<>>, bearerToken |-> ""]

\* A header made for the name node whatever the URL.
BuildAuthHeaderPrimary(url) ==
  CASE authMethod = "basic" ->
         <<"Basic", Base64(credentials.username \o <<58>> \o credentials.password)>>
    [] authMethod = "bearer" -> <<"Bearer", credentials.bearerToken>>
    [] authMethod = "kerberos" ->
         <<"Negotiate", IF kerberosServicePrincipal # ""
                          THEN kerberosServicePrincipal
                          ELSE "HTTP@" \o NameNode>>
    [] OTHER -> <<>>

\* A basic header that carries `username:password` as it is.
BuildAuthHeaderPlain(url) ==
  CASE authMethod = "basic" ->
         <<"Basic", credentials.username \o <<58>> \o credentials.password>>
    [] authMethod = "bearer" -> <<"Bearer", credentials.bearerToken>>
    [] authMethod = "kerberos" ->
         <<"Negotiate", IF kerberosServicePrincipal # ""
                          THEN kerberosServicePrincipal
                          ELSE "HTTP@" \o url.host>>
    [] OTHER -> <<>>

\* buildAuthHeader({...authConfig, url}): the scheme and what follows it;
\* undefined (the empty header) for none and for any other method; for
\* kerberos the token, known by the principal it was negotiated for: the
\* configured one or, without one, HTTP@<host of the url>.
BuildAuthHeader(url) ==
  CASE authMethod = "basic" ->
         <<"Basic", Base64(credentials.username \o <<58>> \o credentials.password)>>
    [] authMethod = "bearer" -> <<"Bearer", credentials.bearerToken>>
    [] authMethod = "kerberos" ->
         <<"Negotiate", IF kerberosServicePrincipal # ""
                          THEN kerberosServicePrincipal
                          ELSE "HTTP@" \o url.host>>
    [] OTHER -> <<>>

\* The statuses a WebHDFS endpoint is taken to answer with.
Statuses == {200, 201, 307, 404}

\* statusCode >= 200 && statusCode < 300, the test of MKDIRS and DELETE.
Is2xx(statusCode) == statusCode >= 200 /\ statusCode < 300

\* A data PUT that is content with any 2xx.
IsCreatedOr2xx(statusCode) == statusCode >= 200 /\ statusCode < 300

\* The data PUT succeeded: 201 Created and nothing else.
IsCreated(statusCode) == statusCode = 201

\* The call in progress: op, the method called; hop, the request it is at
\* (upload: 1 MKDIRS, 2 CREATE, 3 the data PUT; delete: 1); pc, what that hop
\* awaits; url and header, the hop's locals; auths, the URLs buildAuthHeader
\* was called with; reqs and resps, the requests sent and the responses
\* received; aborted, signal.aborted; ok and value, how the call settled.
Hdfs0 ==
  [op |-> "none", hop |-> 0, pc |-> "idle", remoteName |-> "", remotePath |-> <<>>,
   url |-> NoUrl, header |-> <<"unset">>, auths |-> <<>>, reqs |-> <<>>,
   resps |-> <<>>, aborted |-> FALSE, ok |-> FALSE, value |-> <<>>]

\* The command in progress: cmd, which; pc, the await it is at; uri, the tree
\* item's locator; choice, the button pressed; pre, the list when it began;
\* errs, the error messages shown; result, how it ended.
Dep0 ==
  [cmd |-> "none", pc |-> "idle", uri |-> <<>>, canDelete |-> FALSE,
   choice |-> "none", pre |-> <<>>, errs |-> 0, result |-> "none"]

\* removeFromSettingArray: existing.filter((u) => u !== uri)
Without(existing, uri) == SelectSeq(existing, LAMBDA u : u # uri)

\* A settling in which a failed delete fails the remove command.
HdfsSettleUncaught(h, ok, value) ==
  /\ hdfs' = [h EXCEPT !.pc = "settled", !.ok = ok, !.value = value]
  /\ IF dep.cmd = "upload"
       THEN IF ok
              THEN /\ setting' = Append(setting, value)
                   /\ dep' = [dep EXCEPT !.pc = "update"]
              ELSE /\ dep' = [dep EXCEPT !.pc = "done", !.errs = 1, !.result = "failed"]
                   /\ UNCHANGED setting
       ELSE /\ dep' = IF dep.cmd = "remove"
                        THEN [dep EXCEPT !.pc = "done",
                                         !.result = IF ok THEN "completed" ELSE "rejected"]
                        ELSE dep
            /\ UNCHANGED setting

\* The call settled, and the command awaiting it goes on in the same turn:
\* uploadDependency appends the returned locator or reports the failure and
\* returns; removeDependency reports a failed delete and returns normally.
HdfsSettle(h, ok, value) ==
  /\ hdfs' = [h EXCEPT !.pc = "settled", !.ok = ok, !.value = value]
  /\ IF dep.cmd = "upload"
       THEN IF ok
              THEN /\ setting' = Append(setting, value)
                   /\ dep' = [dep EXCEPT !.pc = "update"]
              ELSE /\ dep' = [dep EXCEPT !.pc = "done", !.errs = 1, !.result = "failed"]
                   /\ UNCHANGED setting
       ELSE /\ dep' = IF dep.cmd = "remove"
                        THEN [dep EXCEPT !.pc = "done", !.result = "completed",
                                         !.errs = IF ok THEN 0 ELSE 1]
                        ELSE dep
            /\ UNCHANGED setting

\* A helper of the client starts hop n for url: it awaits buildAuthHeader.
HdfsHop(h, n, url) ==
  /\ hdfs' = [h EXCEPT !.hop = n, !.pc = "auth", !.url = url,
                       !.auths = Append(@, url)]
  /\ UNCHANGED <<setting, dep>>

\* buildAuthHeader resolved.  The data PUT next awaits fs.promises.stat; the
\* other hops send their request, with the header just resolved.
HdfsAuthResolved ==
  /\ hdfs.pc = "auth"
  /\ LET header == BuildAuthHeader(hdfs.url)
         method == IF hdfs.op = "delete" THEN "DELETE" ELSE "PUT"
     IN  hdfs' = IF hdfs.op = "upload" /\ hdfs.hop = 3
                   THEN [hdfs EXCEPT !.pc = "stat", !.header = header]
                   ELSE [hdfs EXCEPT !.pc = "http", !.header = header,
                           !.reqs = Append(@, [method |-> method, url |-> hdfs.url,
                                               header |-> header])]
  /\ UNCHANGED <<authMethod, restartL, kerberosServicePrincipal, credentials, wire, sessionVars, store, setting, dep>>

\* generateSpnegoToken threw: the call fails before any request of the hop.
HdfsAuthRejected ==
  /\ hdfs.pc = "auth"
  /\ authMethod = "kerberos"
  /\ HdfsSettle(hdfs, FALSE, <<>>)
  /\ UNCHANGED <<authMethod, restartL, kerberosServicePrincipal, credentials, wire, sessionVars, store>>

\* fs.promises.stat settled: with the size known the file is streamed to the
\* redirect target; without the file the call fails.
HdfsStatSettled ==
  \E found \in BOOLEAN :
    /\ hdfs.pc = "stat"
    /\ IF found
         THEN /\ hdfs' = [hdfs EXCEPT !.pc = "http",
                            !.reqs = Append(@, [method |-> "PUT", url |-> hdfs.url,
                                                header |-> hdfs.header])]
              /\ UNCHANGED <<setting, dep>>
         ELSE HdfsSettle(hdfs, FALSE, <<>>)
    /\ UNCHANGED <<authMethod, restartL, kerberosServicePrincipal, credentials, wire, sessionVars, store>>

\* The response of the hop's request ended, with a status and, on the answer
\* to CREATE, possibly a Location header.
HdfsResponded ==
  \E statusCode \in Statuses, location \in {NoUrl} \cup
       {[host |-> d, path |-> hdfs.remotePath, op |-> "CREATE"] : d \in DataNodes} :
    /\ hdfs.pc = "http"
    /\ (hdfs.op = "upload" /\ hdfs.hop = 2 /\ statusCode = 307) \/ location = NoUrl
    /\ LET h == [hdfs EXCEPT !.resps = Append(@, [statusCode |-> statusCode,
                                                  location |-> location])]
       IN  IF hdfs.op = "delete"
             THEN HdfsSettle(h, Is2xx(statusCode), <<>>)
           ELSE IF hdfs.hop = 1
             THEN IF Is2xx(statusCode)
                    THEN HdfsHop(h, 2, [host |-> NameNode, path |-> hdfs.remotePath,
                                        op |-> "CREATE"])
                    ELSE HdfsSettle(h, FALSE, <<>>)
           ELSE IF hdfs.hop = 2
             THEN IF statusCode = 307 /\ location # NoUrl
                    THEN HdfsHop(h, 3, location)
                    ELSE HdfsSettle(h, FALSE, <<>>)
           ELSE IF IsCreated(statusCode)
                  THEN HdfsSettle(h, TRUE, HdfsUri(hdfs.remoteName))
                  ELSE HdfsSettle(h, FALSE, <<>>)
    /\ UNCHANGED <<authMethod, restartL, kerberosServicePrincipal, credentials, wire, sessionVars, store>>

\* req.on('error') or the read stream's error: the call fails.
HdfsErrored ==
  /\ hdfs.pc = "http"
  /\ HdfsSettle(hdfs, FALSE, <<>>)
  /\ UNCHANGED <<authMethod, restartL, kerberosServicePrincipal, credentials, wire, sessionVars, store>>

\* Cancel is pressed on the upload's progress notification: the signal
\* aborts.  A request on the wire is destroyed and the call fails; while the
\* hop still awaits its header or the stat no listener is registered yet, and
\* the one registered afterwards is never called.
HdfsAborted ==
  /\ hdfs.op = "upload"
  /\ ~hdfs.aborted
  /\ \/ hdfs.pc \in {"stat", "http"}
     \/ hdfs.pc = "auth" /\ authMethod = "kerberos"
  /\ LET h == [hdfs EXCEPT !.aborted = TRUE]
     IN  IF hdfs.pc = "http"
           THEN HdfsSettle(h, FALSE, <<>>)
           ELSE hdfs' = h /\ UNCHANGED <<setting, dep>>
  /\ UNCHANGED <<authMethod, restartL, kerberosServicePrincipal, credentials, wire, sessionVars, store>>

\* ─── request() ─────────────────────────────────────────────────────────────
LivyUrl == [host |-> "livy", path |-> <<"/sessions">>, op |-> ""]

\* The statuses and raw bodies a Livy endpoint is taken to answer with: a body
\* is a sequence of characters, of which the blank and the braces are told apart.
ResponseStatuses == {199, 200, 204, 299, 300, 500}
RawBodies == {<<>>, <<" ">>, <<"{", "}">>, <<" ", "{", "}", " ">>, <<"{">>}

\* rawBody.trim()
RECURSIVE Trim(_)
Trim(raw) ==
  IF raw = <<>> THEN raw
  ELSE IF Head(raw) = " " THEN Trim(Tail(raw))
  ELSE IF raw[Len(raw)] = " " THEN Trim(SubSeq(raw, 1, Len(raw) - 1))
  ELSE raw

\* JSON.parse(rawBody): the value, or a SyntaxError; blanks around the value
\* are skipped.
JsonParse(raw) ==
  IF Trim(raw) = <<"{", "}">> THEN [ok |-> TRUE, value |-> "object"]
                              ELSE [ok |-> FALSE, value |-> "none"]

NoError == [kind |-> "none", statusCode |-> 0, body |-> <<>>]

\* The constants of the kerberos package.
GSS_MECH_OID_SPNEGO == 6
GSS_C_DELEG_FLAG == 1

\* initOptions of generateSpnegoToken(servicePrincipal, delegate): the keys
\* the object has, with their values.
InitOptions(delegate) ==
  IF delegate THEN [mechOID |-> GSS_MECH_OID_SPNEGO, flags |-> GSS_C_DELEG_FLAG]
              ELSE [mechOID |-> GSS_MECH_OID_SPNEGO]

\* One call of request(): pc, where it is; signal, whether it was given one;
\* delegate, opts.kerberosDelegateCredentials; initializeClient, the options
\* krb.initializeClient was called with; header, the Authorization header; negotiated, the calls of
\* generateSpnegoToken; exchanges, the calls of transport.request; event, what
\* ended the exchange; statusCode and rawBody of the response; outcome, value
\* and error of the returned promise.
Wire0 ==
  [pc |-> "idle", signal |-> FALSE, delegate |-> FALSE, initializeClient |-> <<>>,
   header |-> <<"unset">>, negotiated |-> 0,
   exchanges |-> 0, event |-> "none", statusCode |-> 0, rawBody |-> <<>>,
   outcome |-> "none", value |-> "none", error |-> NoError]

WireSettle(w, event, outcome, value, error) ==
  /\ wire' = [w EXCEPT !.pc = "settled", !.event = event, !.outcome = outcome,
                       !.value = value, !.error = error]
  /\ UNCHANGED <<authMethod, restartL, kerberosServicePrincipal, credentials, sessionVars,
                 setting, hdfs, dep, store>>

\* request(opts) is called and awaits buildAuthHeader(opts).
RequestCalled ==
  \E signal \in BOOLEAN, delegate \in BOOLEAN :
    /\ wire.pc = "idle"
    /\ wire' = [Wire0 EXCEPT !.pc = "auth", !.signal = signal, !.delegate = delegate]
    /\ UNCHANGED <<authMethod, restartL, kerberosServicePrincipal, credentials, sessionVars,
                   setting, hdfs, dep, store>>

\* buildAuthHeader resolved: the request is made, with the Authorization header
\* when there is one, and ended.
RequestAuthResolved ==
  /\ wire.pc = "auth"
  /\ wire' = [wire EXCEPT !.pc = "http", !.header = BuildAuthHeader(LivyUrl),
                !.negotiated = IF authMethod = "kerberos" THEN @ + 1 ELSE @,
                !.initializeClient = IF authMethod = "kerberos"
                                       THEN Append(@, InitOptions(wire.delegate))
                                       ELSE @,
                !.exchanges = @ + 1]
  /\ UNCHANGED <<authMethod, restartL, kerberosServicePrincipal, credentials, sessionVars,
                 setting, hdfs, dep, store>>

\* The import of ./kerberos or generateSpnegoToken threw: request() rejects
\* before its Promise is built.
RequestAuthRejected ==
  /\ wire.pc = "auth"
  /\ authMethod = "kerberos"
  /\ WireSettle([wire EXCEPT !.negotiated = @ + 1,
                   !.initializeClient = Append(@, InitOptions(wire.delegate))],
                "negotiation", "rejected", "none",
                [NoError EXCEPT !.kind = "negotiation"])

\* A request() that takes every status below 400 as a success.
RequestRespondedBelow400 ==
  \E statusCode \in ResponseStatuses, rawBody \in RawBodies :
    /\ wire.pc = "http"
    /\ LET w == [wire EXCEPT !.statusCode = statusCode, !.rawBody = rawBody]
           apiError == [kind |-> "LivyApiError", statusCode |-> statusCode,
                        body |-> rawBody]
       IN  IF statusCode < 200 \/ statusCode >= 400
             THEN WireSettle(w, "response", "rejected", "none", apiError)
           ELSE IF Trim(rawBody) = <<>>
             THEN WireSettle(w, "response", "resolved", "undefined", NoError)
           ELSE IF JsonParse(rawBody).ok
             THEN WireSettle(w, "response", "resolved", JsonParse(rawBody).value, NoError)
           ELSE WireSettle(w, "response", "rejected", "none", apiError)

\* The response ended: res.on('end').
RequestResponded ==
  \E statusCode \in ResponseStatuses, rawBody \in RawBodies :
    /\ wire.pc = "http"
    /\ LET w == [wire EXCEPT !.statusCode = statusCode, !.rawBody = rawBody]
           apiError == [kind |-> "LivyApiError", statusCode |-> statusCode,
                        body |-> rawBody]
       IN  IF statusCode < 200 \/ statusCode >= 300
             THEN WireSettle(w, "response", "rejected", "none", apiError)
           ELSE IF Trim(rawBody) = <<>>
             THEN WireSettle(w, "response", "resolved", "undefined", NoError)
           ELSE IF JsonParse(rawBody).ok
             THEN WireSettle(w, "response", "resolved", JsonParse(rawBody).value, NoError)
           ELSE WireSettle(w, "response", "rejected", "none", apiError)

\* req.on('error'): the connection failed.
RequestErrored ==
  /\ wire.pc = "http"
  /\ WireSettle(wire, "error", "rejected", "none", [NoError EXCEPT !.kind = "transport"])

\* The signal aborted while the exchange was going on: the listener destroys
\* the request and rejects.
RequestAborted ==
  /\ wire.pc = "http"
  /\ wire.signal
  /\ WireSettle(wire, "abort", "rejected", "none", [NoError EXCEPT !.kind = "aborted"])

\* The caller has the outcome.
RequestReturn ==
  /\ wire.pc = "settled"
  /\ wire' = Wire0
  /\ UNCHANGED <<authMethod, restartL, kerberosServicePrincipal, credentials, sessionVars,
                 setting, hdfs, dep, store>>

\* ─── DependencyStore ───────────────────────────────────────────────────────
MaxEntries == 3
Uris == {"a", "b"}

\* The fields in alphabetical order.
FieldsSorted == <<"archives", "files", "jars", "pyFiles">>

\* DependencyStore.fields
Fields == <<"pyFiles", "jars", "files", "archives">>

\* A list that holds the locator exactly once.
IncludesOnce(list, uri) == Cardinality({i \in 1..Len(list) : list[i] = uri}) = 1

\* list.includes(uri)
Includes(list, uri) == \E i \in 1..Len(list) : list[i] = uri

\* The inner loop of getEntries: the entries of one field, in list order.
\* session is null (exists is FALSE) or has a list for each field.
EntriesOf(config, session, field) ==
  [i \in 1..Len(config[field]) |->
     [uri |-> config[field][i], field |-> field,
      status |-> IF session.exists /\ Includes(session.lists[field], config[field][i])
                   THEN "active" ELSE "pending"]]

\* getEntries(session), with config the four livy.<field> settings: the outer
\* loop pushes the entries field by field.
RECURSIVE GetEntriesFrom(_, _, _)
GetEntriesFrom(config, session, k) ==
  IF k > Len(Fields) THEN <<>>
  ELSE EntriesOf(config, session, Fields[k]) \o GetEntriesFrom(config, session, k + 1)

GetEntries(config, session) == GetEntriesFrom(config, session, 1)

\* getPending(session)
GetPending(config, session) ==
  SelectSeq(GetEntries(config, session), LAMBDA e : e.status = "pending")

\* No call made yet: calls counts them, last is what the call before returned.
Store0 ==
  [config |-> [f \in {Fields[k] : k \in 1..Len(Fields)} |-> <<>>],
   session |-> [exists |-> FALSE,
                lists |-> [f \in {Fields[k] : k \in 1..Len(Fields)} |-> <<>>]],
   calls |-> 0, entries |-> <<>>, pending |-> <<>>, last |-> <<>>]

\* Any settings with at most MaxEntries locators in all, and no snapshot, a
\* snapshot with any lists of distinct locators, or one equal to the settings.
InitStore ==
  LET F == {Fields[k] : k \in 1..Len(Fields)}
      Lists == UNION {[1..n -> Uris] : n \in 0..MaxEntries}
      Sets == {l \in UNION {[1..n -> Uris] : n \in 0..Cardinality(Uris)} :
                 \A i, j \in 1..Len(l) : i < j => l[i] # l[j]}
      Total(c) == Len(c["pyFiles"]) + Len(c["jars"]) + Len(c["files"])
                    + Len(c["archives"])
  IN  /\ \E config \in {c \in [F -> Lists] : Total(c) <= MaxEntries} :
           \E session \in {Store0.session, [exists |-> TRUE, lists |-> config]}
                            \cup {[exists |-> TRUE, lists |-> l] : l \in [F -> Sets]} :
             store = [Store0 EXCEPT !.config = config, !.session = session]
      /\ restartL = RestartL0
      /\ authMethod = "none"
      /\ kerberosServicePrincipal = ""
      /\ credentials = Credentials0
      /\ wire = Wire0
      /\ setting = <<>>
      /\ hdfs = Hdfs0
      /\ dep = Dep0
      /\ activeSession = Null
      /\ logOffset = 0
      /\ savedId = NoId
      /\ pc = [op \in Ops |-> "idle"]
      /\ phase = [op \in Ops |-> "none"]
      /\ cancelled = [op \in Ops |-> FALSE]
      /\ createL = CreateL0
      /\ connectL = ConnectL0
      /\ killL = KillL0
      /\ killAllL = KillAllL0
      /\ restoreL = RestoreL0
      /\ execL = ExecL0
      /\ logsL = LogsL0
      /\ obs = [op \in Ops |-> Obs0]

\* The tree view asks for the entries and the pending ones.
Resolve ==
  /\ store.calls < 2
  /\ store' = [store EXCEPT !.calls = @ + 1,
                 !.last = store.entries,
                 !.entries = GetEntries(store.config, store.session),
                 !.pending = GetPending(store.config, store.session)]
  /\ UNCHANGED <<authMethod, restartL, kerberosServicePrincipal, credentials, wire, sessionVars, setting, hdfs, dep>>

SpecStore == InitStore /\ [][Resolve]_vars

\* ─── The whole manager ─────────────────────────────────────────────────────
\* The caller has its result: the invocation is over and its record dropped.
Return ==
  \E op \in Ops :
    /\ pc[op] = "done"
    /\ Goto(op, "idle", "none")
    /\ cancelled' = [cancelled EXCEPT ![op] = FALSE]
    /\ obs' = [obs EXCEPT ![op] = Obs0]
    /\ createL' = IF op = "createSession" THEN CreateL0 ELSE createL
    /\ connectL' = IF op = "connectToExisting" THEN ConnectL0 ELSE connectL
    /\ killL' = IF op = "killSession" THEN KillL0 ELSE killL
    /\ killAllL' = IF op = "killAllSessions" THEN KillAllL0 ELSE killAllL
    /\ restoreL' = IF op = "restoreSession" THEN RestoreL0 ELSE restoreL
    /\ execL' = IF op = "executeCode" THEN ExecL0 ELSE execL
    /\ logsL' = IF op \in {"getLogs", "nextLogs", "tailLogs"} THEN LogsL0 ELSE logsL
    /\ UNCHANGED <<authMethod, restartL, depVars, managerVars>>

\* The extension host has just started: no active session, the cursor at 0,
\* the saved id whatever the last run of the workspace left.
Init ==
  /\ authMethod \in AuthMethods
  /\ activeSession = Null
  /\ logOffset = 0
  /\ savedId \in SessionIds \cup {NoId}
  /\ pc = [op \in Ops |-> IF op = "restoreSession" THEN "activate" ELSE "idle"]
  /\ phase = [op \in Ops |-> "none"]
  /\ cancelled = [op \in Ops |-> FALSE]
  /\ createL = CreateL0
  /\ connectL = ConnectL0
  /\ killL = KillL0
  /\ killAllL = KillAllL0
  /\ restoreL = RestoreL0
  /\ execL = ExecL0
  /\ logsL = LogsL0
  /\ obs = [op \in Ops |-> Obs0]
  /\ kerberosServicePrincipal = ""
  /\ credentials = Credentials0
  /\ wire = Wire0
  /\ setting = <<>>
  /\ hdfs = Hdfs0
  /\ dep = Dep0
  /\ store = Store0
  /\ restartL = RestartL0

Next ==
  \/ AuthResolved
  \/ StartCreate \/ CreateResolved \/ CreateRejected \/ DeadlinePasses
  \/ CreateDelayDone \/ CreatePollResolved \/ CreateInstalled \/ CancelCreate
  \/ StartConnect \/ ConnectListed \/ ConnectPicked \/ ConnectResolved
  \/ ConnectInstalled \/ ConnectRejected
  \/ StartKill \/ KillResolved \/ KillRejected \/ KillCleared
  \/ StartKillAll \/ KillAllListed \/ KillAllListRejected \/ KillAllAnswered
  \/ KillAllDeleted \/ KillAllDeleteRejected \/ KillAllCleared
  \/ StartRestore \/ RestoreResolved \/ RestoreRejected \/ RestoreDropped
  \/ StartExec \/ ExecSubmitted \/ ExecRejected \/ ExecCancelSettled
  \/ ExecDelayDone \/ ExecPollResolved \/ ExecRefreshed \/ ExecRefreshRejected
  \/ CancelExec
  \/ StartNextLogs \/ NextLogsResolved \/ NextLogsRejected
  \/ StartLogs \/ TailProbed \/ TailProbeRejected \/ GetLogsResolved
  \/ GetLogsRejected \/ ShowThenNext
  \/ StartListSessions \/ ListSessionsResolved \/ ListSessionsRejected
  \/ Return

Spec == Init /\ [][Next]_vars

\* ─── createSession under a fair schedule ───────────────────────────────────
\* restoreSession and then createSession commands, one after the other.
NextCreate ==
  \/ AuthResolved
  \/ StartRestore \/ RestoreResolved \/ RestoreRejected \/ RestoreDropped
  \/ StartCreate \/ CreateResolved \/ CreateRejected \/ DeadlinePasses
  \/ CreateDelayDone \/ CreatePollResolved \/ CreateInstalled \/ CancelCreate
  \/ Return

\* Every request returns or fails, every timer and every workspaceState
\* update comes to its end, and the wall clock goes on past any deadline.
FairCreate ==
  /\ WF_vars(AuthResolved)
  /\ WF_vars(CreateResolved \/ CreatePollResolved \/ CreateRejected)
  /\ WF_vars(CreateDelayDone)
  /\ WF_vars(CreateInstalled)
  /\ WF_vars(DeadlinePasses)

SpecCreateFair == Init /\ [][NextCreate]_vars /\ FairCreate

\* ─── The Restart Session command ───────────────────────────────────────────
\* The command's promise is dropped by the command registry; the records of
\* the operations it called are dropped with it.
RestartReturn ==
  /\ restartL.pc = "done"
  /\ restartL' = RestartL0
  /\ UNCHANGED <<authMethod, sessionVars, depVars>>

\* A command that is not part of a restart returns to its caller.
ReturnOutsideRestart == restartL.pc = "idle" /\ Return

\* Connect commands bind the handle; Restart Session commands follow, one
\* command at a time.
NextRestart ==
  \/ AuthResolved
  \/ StartRestore \/ RestoreResolved \/ RestoreRejected \/ RestoreDropped
  \/ (restartL.pc = "idle" /\ StartConnect) \/ ConnectListed \/ ConnectPicked
  \/ ConnectResolved \/ ConnectInstalled \/ ConnectRejected
  \/ StartRestart \/ RestartAnswered \/ RestartKilled \/ RestartCreated
  \/ KillResolved \/ KillRejected \/ KillCleared
  \/ CreateResolved \/ CreateRejected \/ DeadlinePasses
  \/ CreateDelayDone \/ CreatePollResolved \/ CreateInstalled \/ CancelCreate
  \/ RestartReturn \/ ReturnOutsideRestart

SpecRestart == Init /\ [][NextRestart]_vars

\* ─── A command during executeCode ──────────────────────────────────────────
\* Commands are not queued: while executeCode is suspended at an await, a
\* command that writes the handle can be run.
DuringExec ==
  /\ pc["executeCode"] \in {"getStatement", "getSession"}
  /\ \A o \in Ops \ {"executeCode"} : pc[o] = "idle"
  /\ (BeginCreate \/ BeginConnect \/ BeginKill \/ BeginKillAll)
  /\ UNCHANGED restartL

\* restoreSession has bound the handle to the saved session and returned.
InitExecRace ==
  /\ authMethod \in {"none", "kerberos"}
  /\ activeSession \in {s \in Sessions : s.id = 1 /\ IsReady(s)}
  /\ logOffset = 0
  /\ savedId = activeSession.id
  /\ pc = [op \in Ops |-> "idle"]
  /\ phase = [op \in Ops |-> "none"]
  /\ cancelled = [op \in Ops |-> FALSE]
  /\ createL = CreateL0
  /\ connectL = ConnectL0
  /\ killL = KillL0
  /\ killAllL = KillAllL0
  /\ restoreL = RestoreL0
  /\ execL = ExecL0
  /\ logsL = LogsL0
  /\ obs = [op \in Ops |-> Obs0]
  /\ kerberosServicePrincipal = ""
  /\ credentials = Credentials0
  /\ wire = Wire0
  /\ setting = <<>>
  /\ hdfs = Hdfs0
  /\ dep = Dep0
  /\ store = Store0
  /\ restartL = RestartL0

\* executeCode is run and one command overlaps with it, up to their return.
NextExecRace ==
  \/ AuthResolved
  \/ StartExec \/ ExecSubmitted \/ ExecRejected \/ ExecCancelSettled
  \/ ExecDelayDone \/ ExecPollResolved \/ ExecRefreshed \/ ExecRefreshRejected
  \/ CancelExec
  \/ DuringExec
  \/ CreateResolved \/ CreateRejected \/ DeadlinePasses
  \/ CreateDelayDone \/ CreatePollResolved \/ CreateInstalled \/ CancelCreate
  \/ ConnectListed \/ ConnectPicked \/ ConnectResolved
  \/ ConnectInstalled \/ ConnectRejected
  \/ KillResolved \/ KillRejected \/ KillCleared
  \/ KillAllListed \/ KillAllListRejected \/ KillAllAnswered
  \/ KillAllDeleted \/ KillAllDeleteRejected \/ KillAllCleared

SpecExecRace == InitExecRace /\ [][NextExecRace]_vars

\* ─── Start-up ──────────────────────────────────────────────────────────────
\* activate() does not await restoreSession (`void manager.restoreSession()`):
\* the commands are registered and can run while its fetch is in flight.
Unawaited ==
  /\ pc["restoreSession"] \in {"getSession", "update"}
  /\ \A o \in Ops \ {"restoreSession"} : pc[o] = "idle"

\* The first command of the session is run before restoreSession has
\* finished.  Without a handle executeCode and nextLogs return at their guard,
\* so the commands of interest are the four that write the handle.
EarlyStart ==
  /\ Unawaited
  /\ (BeginCreate \/ BeginConnect \/ BeginKill \/ BeginKillAll)
  /\ UNCHANGED restartL

\* restoreSession and the first command, overlapping, up to their return.
NextStartup ==
  \/ AuthResolved
  \/ StartRestore \/ RestoreResolved \/ RestoreRejected \/ RestoreDropped
  \/ EarlyStart
  \/ CreateResolved \/ CreateRejected \/ DeadlinePasses
  \/ CreateDelayDone \/ CreatePollResolved \/ CreateInstalled \/ CancelCreate
  \/ ConnectListed \/ ConnectPicked \/ ConnectResolved
  \/ ConnectInstalled \/ ConnectRejected
  \/ KillResolved \/ KillRejected \/ KillCleared
  \/ KillAllListed \/ KillAllListRejected \/ KillAllAnswered
  \/ KillAllDeleted \/ KillAllDeleteRejected \/ KillAllCleared

SpecStartup == Init /\ [][NextStartup]_vars

\* ─── Dependency commands ───────────────────────────────────────────────────
MaxSetting == 2

\* livy.uploadDependency: a file is picked (or the picker dismissed) and
\* HdfsClient.upload is called under a cancellable progress notification.
BeginUpload ==
  \E remoteName \in RemoteNames, picked \in BOOLEAN :
    /\ dep.pc = "idle" /\ hdfs.pc = "idle"
    /\ Len(setting) < MaxSetting
    /\ IF picked
         THEN /\ dep' = [Dep0 EXCEPT !.cmd = "upload", !.pc = "upload", !.pre = setting]
              /\ hdfs' = [Hdfs0 EXCEPT !.op = "upload", !.hop = 1, !.pc = "auth",
                            !.remoteName = remoteName,
                            !.remotePath = RemotePath(remoteName),
                            !.url = [host |-> NameNode, path |-> <<UploadDir>>,
                                     op |-> "MKDIRS"],
                            !.auths = <<[host |-> NameNode, path |-> <<UploadDir>>,
                                         op |-> "MKDIRS"]>>]
         ELSE /\ dep' = [Dep0 EXCEPT !.cmd = "upload", !.pc = "done",
                                     !.pre = setting, !.result = "dismissed"]
              /\ UNCHANGED hdfs
    /\ UNCHANGED <<authMethod, restartL, kerberosServicePrincipal, credentials, wire, sessionVars, store, setting>>

\* livy.removeDependency on an item of the tree: the modal prompt opens, and
\* offers the delete only with a client and an hdfs:// or webhdfs:// locator.
BeginRemove ==
  \E i \in 1..Len(setting), client \in BOOLEAN :
    /\ dep.pc = "idle" /\ hdfs.pc = "idle"
    /\ dep' = [Dep0 EXCEPT !.cmd = "remove", !.pc = "prompt", !.uri = setting[i],
                 !.canDelete = client /\ Head(setting[i]) \in {"hdfs://", "webhdfs://"},
                 !.pre = setting]
    /\ UNCHANGED <<authMethod, restartL, kerberosServicePrincipal, credentials, wire, sessionVars, store, setting, hdfs>>

\* The prompt is answered: dismissed, the command returns; otherwise the
\* locator is filtered out of the list and the list written back.
RemoveChosen ==
  \E choice \in {"none", "settingsOnly", "delete"} :
    /\ dep.pc = "prompt"
    /\ choice = "delete" => dep.canDelete
    /\ IF choice = "none"
         THEN /\ dep' = [dep EXCEPT !.pc = "done", !.result = "dismissed"]
              /\ UNCHANGED setting
         ELSE /\ dep' = [dep EXCEPT !.pc = "update", !.choice = choice]
              /\ setting' = Without(setting, dep.uri)
    /\ UNCHANGED <<authMethod, restartL, kerberosServicePrincipal, credentials, wire, sessionVars, store, hdfs>>

\* config.update resolved: the upload command is done; the remove command
\* calls HdfsClient.delete(uri), without a signal, if that was chosen.
DepUpdated ==
  /\ dep.pc = "update"
  /\ IF dep.cmd = "remove" /\ dep.choice = "delete"
       THEN LET url == [host |-> NameNode, path |-> StripScheme(dep.uri),
                        op |-> "DELETE"]
            IN  /\ dep' = [dep EXCEPT !.pc = "delete"]
                /\ hdfs' = [Hdfs0 EXCEPT !.op = "delete", !.hop = 1, !.pc = "auth",
                              !.remotePath = dep.uri, !.url = url, !.auths = <<url>>]
       ELSE /\ dep' = [dep EXCEPT !.pc = "done",
                         !.result = IF dep.cmd = "upload" THEN "uploaded"
                                    ELSE "completed"]
            /\ UNCHANGED hdfs
  /\ UNCHANGED <<authMethod, restartL, kerberosServicePrincipal, credentials, wire, sessionVars, store, setting>>

\* HdfsClient.delete(remotePath) called with any locator.
BeginDelete ==
  \E remotePath \in Locators :
    /\ dep.pc = "idle" /\ hdfs.pc = "idle"
    /\ LET url == [host |-> NameNode, path |-> StripScheme(remotePath),
                   op |-> "DELETE"]
       IN  hdfs' = [Hdfs0 EXCEPT !.op = "delete", !.hop = 1, !.pc = "auth",
                      !.remotePath = remotePath, !.url = url, !.auths = <<url>>]
    /\ UNCHANGED <<authMethod, restartL, kerberosServicePrincipal, credentials, wire, sessionVars, store, setting, dep>>

\* The command, or the bare client call, has returned to its caller.
DepReturn ==
  /\ dep.pc = "done" \/ (dep.cmd = "none" /\ hdfs.pc = "settled")
  /\ dep' = Dep0
  /\ hdfs' = Hdfs0
  /\ UNCHANGED <<authMethod, restartL, kerberosServicePrincipal, credentials, wire, sessionVars, store, setting>>

\* A workspace with any short list in the setting, and no session.
InitDeps ==
  /\ authMethod \in AuthMethods
  /\ kerberosServicePrincipal \in {"", "HTTP@gateway"}
  /\ credentials \in Credentials
  /\ wire = Wire0
  /\ setting \in UNION {[1..n -> Locators] : n \in 0..MaxSetting}
  /\ hdfs = Hdfs0
  /\ dep = Dep0
  /\ store = Store0
  /\ restartL = RestartL0
  /\ activeSession = Null
  /\ logOffset = 0
  /\ savedId = NoId
  /\ pc = [op \in Ops |-> "idle"]
  /\ phase = [op \in Ops |-> "none"]
  /\ cancelled = [op \in Ops |-> FALSE]
  /\ createL = CreateL0
  /\ connectL = ConnectL0
  /\ killL = KillL0
  /\ killAllL = KillAllL0
  /\ restoreL = RestoreL0
  /\ execL = ExecL0
  /\ logsL = LogsL0
  /\ obs = [op \in Ops |-> Obs0]

NextDeps ==
  \/ BeginUpload \/ BeginRemove \/ RemoveChosen \/ DepUpdated \/ BeginDelete
  \/ HdfsAuthResolved \/ HdfsAuthRejected \/ HdfsStatSettled \/ HdfsResponded
  \/ HdfsErrored \/ HdfsAborted
  \/ DepReturn

SpecDeps == InitDeps /\ [][NextDeps]_vars

\* ─── One client making requests ────────────────────────────────────────────
\* The settings are any: a method, one of them not known to buildAuthHeader,
\* a principal or none, and credentials.
InitRequest ==
  /\ authMethod \in AuthMethods \cup {"digest"}
  /\ kerberosServicePrincipal \in {"", "HTTP@gateway"}
  /\ credentials \in Credentials
  /\ wire = Wire0
  /\ setting = <<>>
  /\ hdfs = Hdfs0
  /\ dep = Dep0
  /\ store = Store0
  /\ restartL = RestartL0
  /\ activeSession = Null
  /\ logOffset = 0
  /\ savedId = NoId
  /\ pc = [op \in Ops |-> "idle"]
  /\ phase = [op \in Ops |-> "none"]
  /\ cancelled = [op \in Ops |-> FALSE]
  /\ createL = CreateL0
  /\ connectL = ConnectL0
  /\ killL = KillL0
  /\ killAllL = KillAllL0
  /\ restoreL = RestoreL0
  /\ execL = ExecL0
  /\ logsL = LogsL0
  /\ obs = [op \in Ops |-> Obs0]

NextRequest ==
  \/ RequestCalled \/ RequestAuthResolved \/ RequestAuthRejected
  \/ RequestResponded \/ RequestErrored \/ RequestAborted \/ RequestReturn

SpecRequest == InitRequest /\ [][NextRequest]_vars

\* ─── Properties ────────────────────────────────────────────────────────────
\* An invocation of op has ended and its caller has not yet moved on.
Done(op) == pc[op] = "done"

\* The manager state is what it was when the invocation of op began.
Untouched(op) ==
  /\ activeSession = obs[op].pre.active
  /\ savedId = obs[op].pre.saved
  /\ logOffset = obs[op].pre.offset

\* C1: createSession reports success (the session installed as the active
\* one, its id persisted, 'session changed' fired with it) only when the last
\* snapshot received, from the create call or the last poll, is in state idle,
\* and the snapshot installed and announced is that one.
C1_SuccessOnlyWhenIdle ==
  LET o == obs["createSession"]
      reported == \/ pc["createSession"] = "update"
                  \/ o.result = "success"
                  \/ o.changed # <<>>
  IN  /\ reported =>
           /\ createL.current.state = "idle"
           /\ activeSession = createL.current
           /\ savedId = createL.current.id
      /\ o.changed # <<>> => o.changed = <<createL.current>> /\ o.result = "success"
      /\ o.result = "success" => o.changed = <<createL.current>> /\ logOffset = 0

\* createSession succeeded after at least one poll.
C1_Witness ==
  /\ Done("createSession")
  /\ obs["createSession"].result = "success"
  /\ obs["createSession"].reqs["getSession"] >= 1

\* C2: when the cancel button is pressed while createSession waits for the
\* create request, for an inter-poll delay or for a poll request, createSession
\* ends with the active session, the saved id and the log cursor as they were
\* before the call, with no 'session changed' fired and no session deleted.
C2_CancelLeavesNoTrace ==
  LET o == obs["createSession"]
  IN  (Done("createSession")
       /\ o.cancelAt[1] \in {"createSession", "delay", "getSession"})
      => /\ Untouched("createSession")
         /\ o.changed = <<>>
         /\ o.reqs["deleteSession"] = 0

\* C3, as stated: an executeCode that submitted its statement ends either by
\* returning a statement last fetched as available, error or cancelled, or
\* with no result because it was cancelled.
C3_FourOutcomes ==
  (Done("executeCode") /\ execL.statId # 0)
  => \/ /\ obs["executeCode"].result = "statement"
        /\ execL.returned = execL.current
        /\ execL.returned.state \in {"available", "error", "cancelled"}
     \/ /\ obs["executeCode"].result # "statement"
        /\ cancelled["executeCode"]

\* C3, amended: executeCode returns a statement only if it is the one last
\* fetched and its state is available, error or cancelled, and then it has
\* announced exactly that statement; every other ending returns no statement
\* and comes from a missing session, a failed request or a cancellation.
C3_StatementOnlyWhenFinal ==
  LET o == obs["executeCode"]
  IN  /\ execL.returned # NoStatement =>
           /\ o.result = "statement"
           /\ execL.returned = execL.current
           /\ execL.returned.state \in {"available", "error", "cancelled"}
      /\ (Done("executeCode") /\ o.result = "statement") =>
           /\ execL.returned = execL.current
           /\ execL.returned.state \in {"available", "error", "cancelled"}
      /\ (Done("executeCode") /\ o.result # "statement") =>
           /\ execL.returned = NoStatement
           /\ o.completed = <<>>
           /\ \/ o.result \in {"noSession", "error"}
              \/ cancelled["executeCode"]

\* executeCode returned a statement after a poll that found it still running.
C3_Witness ==
  /\ Done("executeCode")
  /\ obs["executeCode"].result = "statement"
  /\ obs["executeCode"].reqs["getStatement"] >= 2

\* C4: when the cancel button is pressed after the statement was submitted and
\* before a final state was fetched (in an inter-poll delay or while a poll is
\* in flight), executeCode sends exactly one cancel request, returns no result,
\* fires no 'statement complete' and makes no further poll.
C4_CancelSendsOneCancel ==
  LET o == obs["executeCode"]
  IN  (Done("executeCode") /\ o.cancelAt[1] \in {"delay", "getStatement"})
      => /\ o.reqs["cancelStatement"] = 1
         /\ o.result = "aborted"
         /\ o.completed = <<>>
         /\ o.reqs["getStatement"] = o.cancelAt[3]

\* C5: a cancellation never rejects the promise of createSession or of
\* executeCode: the call resolves with its aborted outcome.
C5_CancelNeverRejects ==
  \A op \in {"createSession", "executeCode"} :
    (Done(op) /\ cancelled[op]) => obs[op].result # "rejected"

\* C6, as stated: with no active session, or with an active session whose
\* snapshot is dead, error, killed or success, executeCode fails at once and
\* makes no request.
C6_NeedsUsableSession ==
  LET o == obs["executeCode"]
  IN  (pc["executeCode"] # "idle"
       /\ \/ o.pre.active = Null
          \/ o.pre.active.state \in {"dead", "error", "killed", "success"})
      => /\ o.result = "noSession"
         /\ \A m \in ClientMethods : o.reqs[m] = 0

\* C6, amended: with no active session executeCode fails at once, shows 'No
\* active Livy session.' and makes no request; with an active session in any
\* state, the terminal ones included, it submits the statement to it.
C6_NeedsSession ==
  LET o == obs["executeCode"]
  IN  pc["executeCode"] # "idle" =>
        /\ o.pre.active = Null =>
             /\ Done("executeCode")
             /\ o.result = "noSession"
             /\ o.errs = 1
             /\ \A m \in ClientMethods : o.reqs[m] = 0
        /\ o.pre.active # Null =>
             /\ o.reqs["createStatement"] = 1
             /\ execL.sessionId = o.pre.active.id
             /\ o.result # "noSession"

\* executeCode was called with no active session.
C6_Witness ==
  /\ Done("executeCode")
  /\ obs["executeCode"].pre.active = Null
  /\ obs["executeCode"].result = "noSession"

\* C7: when createSession ends because a request failed, the session reached
\* dead, error or killed, or the deadline passed, the active session, the
\* saved id and the log cursor are as before the call and no 'session changed'
\* was fired.
C7_FailureLeavesNoTrace ==
  LET o == obs["createSession"]
  IN  (Done("createSession") /\ o.result \in {"error", "failed", "timeout"})
      => /\ Untouched("createSession")
         /\ o.changed = <<>>
         /\ o.errs = 1

\* createSession failed on a poll while another session was active and the log
\* cursor had moved.
C7_Witness ==
  /\ Done("createSession")
  /\ obs["createSession"].result = "error"
  /\ obs["createSession"].reqs["getSession"] >= 1
  /\ obs["createSession"].cancelAt[1] = "none"
  /\ activeSession # Null
  /\ logOffset > 0

\* C8: after killSession(id), id defaulting to the active session's, the
\* handle and the saved id are cleared and 'session changed' is fired with no
\* session exactly if id is the active session's id, whether the delete
\* succeeded or failed; otherwise handle, saved id and cursor are as before
\* and nothing is fired.  The cursor is as before in both cases.
C8_KillClearsIffActive ==
  LET o == obs["killSession"]
  IN  (Done("killSession") /\ killL.sessionId # NoId) =>
        /\ killL.deleted \in {"killed", "failed"}
        /\ o.reqs["deleteSession"] = 1
        /\ logOffset = o.pre.offset
        /\ IF killL.sessionId = o.pre.active.id
             THEN /\ activeSession = Null
                  /\ savedId = NoId
                  /\ o.changed = <<Null>>
             ELSE /\ Untouched("killSession")
                  /\ o.changed = <<>>

\* The active session was killed although its delete failed.
C8_Witness ==
  /\ Done("killSession")
  /\ killL.deleted = "failed"
  /\ killL.sessionId = obs["killSession"].pre.active.id
  /\ activeSession = Null

\* The number of deletes of killAllSessions that succeeded so far.
Succeeded == Cardinality({i \in DOMAIN killAllL.settled : killAllL.settled[i] = "killed"})

\* C9: once killAllSessions has listed at least one session and was confirmed,
\* it calls delete once for every listed session, in list order, going on
\* after a failure; its count is the number of deletes that succeeded; and at
\* the end handle and saved id are cleared and 'session changed' is fired with
\* no session, however many deletes failed and whether or not the active
\* session was listed.
C9_KillAllDeletesEach ==
  LET o == obs["killAllSessions"]
      l == killAllL
  IN  /\ l.next > 0 =>
           /\ l.deleted = SubSeq(l.sessions, 1, l.next)
           /\ l.killed = Succeeded
      /\ pc["killAllSessions"] = "deleteSession" => Len(l.settled) = l.next - 1
      /\ (pc["killAllSessions"] = "update" \/ o.result = "killedAll") =>
           /\ Len(l.sessions) >= 1
           /\ l.deleted = l.sessions
           /\ Len(l.settled) = Len(l.sessions)
           /\ l.killed = Succeeded
           /\ activeSession = Null
           /\ savedId = NoId
      /\ o.result = "killedAll" => o.changed = <<Null>>
      /\ o.changed # <<>> => o.result = "killedAll"

\* killAllSessions ended after a failed and a successful delete, with an
\* active session before it.
C9_Witness ==
  /\ Done("killAllSessions")
  /\ obs["killAllSessions"].result = "killedAll"
  /\ killAllL.settled = <<"failed", "killed">>
  /\ obs["killAllSessions"].pre.active # Null

\* C10: restoreSession with a saved id whose fetch fails resolves, drops the
\* saved id, shows no error and fires nothing; with a saved id whose fetch
\* succeeds it installs the fetched session in whatever state, sets the cursor
\* to 0 and fires 'session changed' with it; with no saved id it makes no
\* request.
C10_RestoreIsQuiet ==
  LET o == obs["restoreSession"]
  IN  Done("restoreSession") =>
        /\ o.result \in {"noSavedId", "dropped", "restored"}
        /\ o.errs = 0
        /\ o.pre.saved = NoId <=> o.result = "noSavedId"
        /\ o.result = "noSavedId" =>
             /\ \A m \in ClientMethods : o.reqs[m] = 0
             /\ Untouched("restoreSession")
             /\ o.changed = <<>>
        /\ o.result = "dropped" =>
             /\ savedId = NoId
             /\ o.changed = <<>>
             /\ o.reqs["getSession"] = 1
        /\ o.result = "restored" =>
             /\ activeSession.id = o.pre.saved
             /\ activeSession.state \in SessionStates
             /\ savedId = o.pre.saved
             /\ logOffset = 0
             /\ o.changed = <<activeSession>>
             /\ o.reqs["getSession"] = 1

\* The saved session was gone: the saved id was dropped.
C10_Witness ==
  /\ Done("restoreSession")
  /\ obs["restoreSession"].pre.saved # NoId
  /\ obs["restoreSession"].result = "dropped"
  /\ savedId = NoId

\* C11 (as stated): whenever a restoreSession call whose fetch failed ends,
\* the active-session handle is empty, whatever it held before; and the
\* finally block of a kill of the active session leaves the handle empty.
C11_FailedRestoreClears ==
  [][/\ (pc["restoreSession"] = "update" /\ pc'["restoreSession"] = "done")
          => activeSession' = Null
     /\ (/\ pc["killSession"] = "deleteSession"
         /\ pc'["killSession"] # "deleteSession"
         /\ killL.sessionId = activeSession.id)
          => activeSession' = Null]_vars

\* C11 (amended): a failed restore drops the saved id and leaves the
\* active-session handle as it is, from the failure of the fetch to the end of
\* the call; the finally block of a kill of the active session empties it.
C11_FailedRestoreKeepsHandle ==
  [][/\ (pc["restoreSession"] = "getSession" /\ pc'["restoreSession"] = "update")
          => activeSession' = activeSession /\ savedId' = NoId
     /\ (pc["restoreSession"] = "update" /\ pc'["restoreSession"] = "done")
          => activeSession' = activeSession
     /\ (/\ pc["killSession"] = "deleteSession"
         /\ pc'["killSession"] # "deleteSession"
         /\ killL.sessionId = activeSession.id)
          => activeSession' = Null]_vars

\* The fetch of restoreSession has failed while a command run during start-up
\* has installed a session.
C11_Witness ==
  /\ pc["restoreSession"] = "update"
  /\ activeSession # Null

\* C12: once a poll of executeCode has fetched a statement in state
\* available, error or cancelled, the call ends by firing exactly one
\* 'statement complete' with the session id the statement was submitted to and
\* that statement, and returns that statement, whether the refresh of the
\* session succeeded or failed; a 'session changed' fired by the refresh comes
\* before it; and no call that returns no result fires 'statement complete'.
C12_CompleteOnceWithFinal ==
  LET o == obs["executeCode"]
      final == execL.current.state \in {"available", "error", "cancelled"}
  IN  /\ (pc["executeCode"] = "getSession") => final /\ o.completed = <<>>
      /\ (Done("executeCode") /\ final) =>
            /\ o.result = "statement"
            /\ execL.returned = execL.current
            /\ o.completed = <<[sessionId |-> o.pre.active.id,
                                statement |-> execL.current,
                                after |-> Len(o.changed)]>>
            /\ Len(o.changed) <= 1
      /\ (o.result # "statement") => o.completed = <<>>

\* executeCode returned a final statement although its refresh failed.
C12_Witness ==
  /\ Done("executeCode")
  /\ obs["executeCode"].result = "statement"
  /\ obs["executeCode"].changed = <<>>
  /\ Len(obs["executeCode"].completed) = 1

\* C13: an invocation of createSession makes at most one session-create
\* request and an invocation of executeCode at most one statement-create
\* request, however it ends (success, failed request, failed poll, timeout,
\* cancellation); a submission that failed or was aborted is not sent again.
C13_SubmitAtMostOnce ==
  /\ obs["createSession"].reqs["createSession"] <= 1
  /\ obs["executeCode"].reqs["createStatement"] <= 1
  /\ Done("createSession") => obs["createSession"].reqs["createSession"] = 1
  /\ (Done("executeCode") /\ obs["executeCode"].result # "noSession")
        => obs["executeCode"].reqs["createStatement"] = 1

\* createSession ended on a create request that failed, with no poll made.
C13_Witness ==
  /\ Done("createSession")
  /\ obs["createSession"].result = "error"
  /\ obs["createSession"].reqs["createSession"] = 1
  /\ obs["createSession"].reqs["getSession"] = 0

\* C14: upload sends MKDIRS, then CREATE, then the data PUT, each only after
\* the one before succeeded: CREATE only after MKDIRS was answered 2xx, the
\* data PUT, to the redirect target, only after CREATE was answered 307 with
\* a Location, and hdfs://<uploadDir>/<remoteName> is returned only after the
\* data PUT was answered 201; any other answer fails the upload with no
\* request after it.
C14_UploadInOrder ==
  LET n == Len(hdfs.reqs)
      r == hdfs.resps
      bad(k) == CASE k = 1 -> ~(r[1].statusCode \in 200..299)
                  [] k = 2 -> ~(r[2].statusCode = 307 /\ r[2].location # NoUrl)
                  [] OTHER -> r[3].statusCode # 201
  IN  hdfs.op = "upload" =>
        /\ n <= 3 /\ Len(r) <= n
        /\ \A i \in 1..n : hdfs.reqs[i].method = "PUT"
        /\ n >= 1 => hdfs.reqs[1].url =
                       [host |-> NameNode, path |-> <<UploadDir>>, op |-> "MKDIRS"]
        /\ n >= 2 => /\ ~bad(1)
                     /\ hdfs.reqs[2].url =
                          [host |-> NameNode, op |-> "CREATE",
                           path |-> <<UploadDir, "/", hdfs.remoteName>>]
        /\ n = 3 => ~bad(2) /\ hdfs.reqs[3].url = r[2].location
        /\ (hdfs.pc = "settled" /\ hdfs.ok) =>
             /\ n = 3 /\ Len(r) = 3 /\ ~bad(3)
             /\ hdfs.value = <<"hdfs://", UploadDir, "/", hdfs.remoteName>>
        /\ \A k \in 1..Len(r) :
             bad(k) => hdfs.pc = "settled" /\ ~hdfs.ok /\ n = k

\* An upload returned its locator.
C14_Witness ==
  /\ hdfs.op = "upload"
  /\ hdfs.pc = "settled"
  /\ hdfs.ok
  /\ dep.cmd = "upload"

\* C15: when CREATE is answered 307 without a Location, or the upload fails
\* or is cancelled at any other step, the upload fails and the upload command
\* leaves the livy.<field> list as it was; the locator is appended, once,
\* only after upload returned it.
C15_NoPartialLocator ==
  dep.cmd = "upload" =>
    /\ (hdfs.pc = "settled" /\ hdfs.aborted) => ~hdfs.ok /\ setting = dep.pre
    /\ (Len(hdfs.resps) >= 2 /\ hdfs.resps[2].location = NoUrl) =>
         hdfs.pc = "settled" /\ ~hdfs.ok /\ Len(hdfs.reqs) = 2
    /\ (hdfs.pc = "settled" /\ ~hdfs.ok) => setting = dep.pre /\ dep.result = "failed"
    /\ hdfs.pc # "settled" => setting = dep.pre
    /\ (hdfs.pc = "settled" /\ hdfs.ok) => setting = Append(dep.pre, hdfs.value)

\* C16: every request of an upload carries a header resolved for its own URL
\* just before it, one resolution per request and none carried over: for
\* kerberos without a configured principal the data PUT is authenticated for
\* HTTP@<host of the redirect target>; delete resolves one header for its one
\* request.
C16_HeaderPerHop ==
  LET n == Len(hdfs.reqs)
      expected(url) ==
        CASE authMethod = "basic" ->
               <<"Basic", Base64(credentials.username \o <<58>> \o credentials.password)>>
          [] authMethod = "bearer" -> <<"Bearer", credentials.bearerToken>>
          [] authMethod = "kerberos" ->
               <<"Negotiate", IF kerberosServicePrincipal # ""
                                THEN kerberosServicePrincipal
                                ELSE "HTTP@" \o url.host>>
          [] OTHER -> <<>>
  IN  /\ Len(hdfs.auths) \in {n, n + 1}
      /\ \A i \in 1..n : /\ hdfs.auths[i] = hdfs.reqs[i].url
                         /\ hdfs.reqs[i].header = expected(hdfs.reqs[i].url)
      /\ (hdfs.op = "upload" /\ n = 3) =>
           hdfs.reqs[3].header = expected(hdfs.resps[2].location)
      /\ hdfs.op = "delete" => Len(hdfs.auths) = 1 /\ n <= 1

\* The data PUT of an upload went to a data node, authenticated by kerberos
\* with no principal configured.
C16_Witness ==
  /\ hdfs.op = "upload"
  /\ Len(hdfs.reqs) = 3
  /\ authMethod = "kerberos"
  /\ kerberosServicePrincipal = ""
  /\ hdfs.reqs[3].url.host \in DataNodes

C18_RemoveSurvivesDelete ==
  LET rest == SelectSeq(dep.pre, LAMBDA u : u # dep.uri)
  IN  dep.cmd = "remove" =>
        /\ dep.choice = "none" => setting = dep.pre /\ hdfs.op = "none"
        /\ dep.choice # "none" => setting = rest
        /\ hdfs.op # "none" => dep.choice = "delete" /\ setting = rest
        /\ (dep.choice = "delete" /\ hdfs.pc = "settled") =>
             /\ dep.pc = "done"
             /\ dep.result = "completed"
             /\ dep.errs = IF hdfs.ok THEN 0 ELSE 1

\* A remove whose delete failed has completed, and an entry is left.
C18_Witness ==
  /\ dep.cmd = "remove"
  /\ dep.pc = "done"
  /\ dep.choice = "delete"
  /\ ~hdfs.ok
  /\ setting # <<>>

\* C19: getEntries changes nothing and returns one entry per configured
\* locator, the fields in the order pyFiles, jars, files, archives and each
\* field's locators in configured order; an entry is active exactly when there
\* is a snapshot and its list of the same field holds the locator, pending
\* otherwise, so always without a snapshot; a second call with the same inputs
\* returns the same; getPending returns the pending entries of getEntries.
C19_EntriesPerLocator ==
  LET c == store.config
      s == store.session
      e == store.entries
      order == <<"pyFiles", "jars", "files", "archives">>
      before(k) == IF k = 1 THEN 0
                   ELSE IF k = 2 THEN Len(c["pyFiles"])
                   ELSE IF k = 3 THEN Len(c["pyFiles"]) + Len(c["jars"])
                   ELSE Len(c["pyFiles"]) + Len(c["jars"]) + Len(c["files"])
  IN  store.calls >= 1 =>
        /\ Len(e) = before(4) + Len(c["archives"])
        /\ \A k \in 1..4 : \A i \in 1..Len(c[order[k]]) :
             LET entry == e[before(k) + i]
             IN  /\ entry.uri = c[order[k]][i]
                 /\ entry.field = order[k]
                 /\ entry.status \in {"active", "pending"}
                 /\ entry.status = "active" <=>
                      /\ s.exists
                      /\ \E m \in 1..Len(s.lists[order[k]]) :
                           s.lists[order[k]][m] = entry.uri
        /\ store.pending = SelectSeq(e, LAMBDA x : x.status = "pending")
        /\ store.calls = 2 => store.last = e

\* Entries were returned of which one is pending although another field's
\* list of the snapshot holds its locator, and one is active.
C19_Witness ==
  /\ store.calls >= 1
  /\ store.session.exists
  /\ \E j \in 1..Len(store.entries) :
       /\ store.entries[j].status = "pending"
       /\ \E m \in 1..Len(store.session.lists["jars"]) :
            store.session.lists["jars"][m] = store.entries[j].uri
  /\ \E j \in 1..Len(store.entries) : store.entries[j].status = "active"

\* C20: with a snapshot whose four lists equal the four configured lists,
\* every entry of getEntries is active and getPending is empty, for empty
\* lists and for lists with duplicates too.
C20_RoundTrip ==
  (/\ store.calls >= 1
   /\ store.session.exists
   /\ store.session.lists = store.config) =>
     /\ \A j \in 1..Len(store.entries) : store.entries[j].status = "active"
     /\ Len(store.entries) = Len(store.config["pyFiles"]) + Len(store.config["jars"])
                               + Len(store.config["files"])
                               + Len(store.config["archives"])
     /\ store.pending = <<>>

\* The round trip was made with a locator configured twice in one field and
\* another field empty.
C20_Witness ==
  /\ store.calls >= 1
  /\ store.session.exists
  /\ store.session.lists = store.config
  /\ store.config["pyFiles"] = <<"a", "a">>
  /\ store.config["jars"] = <<>>

\* C21: the step with which createSession, connectToExisting or restoreSession
\* ends in success leaves the cursor at 0, whatever it was when the operation
\* began; a nextLogs called then asks for the log from the cursor, so from 0;
\* and no step of kill, killAll, executeCode, getLogs or tailLogs changes the
\* cursor: every change of it is a step of create, connect, restore or nextLogs.
C21_CursorResets ==
  [][/\ \A op \in {"createSession", "connectToExisting", "restoreSession"} :
          (/\ ~Done(op)
           /\ Done(op)'
           /\ obs'[op].result \in {"success", "connected", "restored"})
          => logOffset' = 0
     /\ (pc["nextLogs"] = "idle" /\ pc'["nextLogs"] = "getLogs")
          => logsL'.fetches = <<[from |-> logOffset, size |-> LOG_SIZE]>>
     /\ logOffset' # logOffset
          => \E op \in {"createSession", "connectToExisting", "restoreSession",
                         "nextLogs"} : pc'[op] # pc[op]]_vars

\* A session was created while the cursor was past 0, and the cursor is 0.
C21_Witness ==
  /\ Done("createSession")
  /\ obs["createSession"].result = "success"
  /\ obs["createSession"].pre.offset > 0
  /\ logOffset = 0

\* C22: nextLogs asks for LOG_SIZE lines from the cursor; when the page
\* arrives the cursor becomes the page's `from` plus the number of its lines,
\* which is the old cursor plus that number, and not less than the old cursor,
\* when `from` is the offset asked for; when the fetch fails, or there is no
\* active session, the cursor stays.
C22_NextLogsAdvances ==
  [][(~Done("nextLogs") /\ Done("nextLogs")')
       => LET r == obs'["nextLogs"].result
              asked == logsL.fetches[1].from
          IN  /\ r \in {"shown", "error", "noSession"}
              /\ r = "shown" =>
                    /\ logsL.fetches = <<[from |-> logOffset, size |-> LOG_SIZE]>>
                    /\ logOffset' = logsL'.res.from + logsL'.res.n
                    /\ logsL'.res.from = asked =>
                          /\ logOffset' = logOffset + logsL'.res.n
                          /\ logOffset' >= logOffset
              /\ r # "shown" => logOffset' = logOffset]_vars

\* nextLogs showed a page of at least one line from the offset it asked for.
C22_Witness ==
  /\ Done("nextLogs")
  /\ obs["nextLogs"].result = "shown"
  /\ logsL.res.from = logsL.fetches[1].from
  /\ logsL.res.n > 0
  /\ logOffset = obs["nextLogs"].pre.offset + logsL.res.n

\* The fetches of a tailLogs in progress or ended are the probe (from 0, one
\* line) and then at most one more, of LOG_SIZE lines from the probe's total
\* less LOG_SIZE, or from 0 when that is not positive.
TailFetches ==
  LET f == logsL.fetches
  IN  /\ Len(f) = obs["tailLogs"].reqs["getLogs"]
      /\ Len(f) <= 2
      /\ Len(f) >= 1 => f[1] = [from |-> 0, size |-> 1]
      /\ Len(f) = 2 =>
            /\ f[2].size = LOG_SIZE
            /\ f[2].from >= 0
            /\ logsL.probe <= LOG_SIZE => f[2].from = 0
            /\ logsL.probe > LOG_SIZE => f[2].from = logsL.probe - LOG_SIZE

\* C23: tailLogs first fetches one line from 0, then LOG_SIZE lines from
\* max(0, total - LOG_SIZE), total being what the probe reported; that offset
\* is never negative and is 0 when total <= LOG_SIZE; the second fetch is made
\* only by the step in which the probe's response arrives; and no step of
\* tailLogs changes the cursor.
C23_TailLogs ==
  [][/\ pc'["tailLogs"] # "idle" => TailFetches'
     /\ (pc["tailLogs"] # "idle" /\ Len(logsL'.fetches) > Len(logsL.fetches))
          => pc["tailLogs"] = "probe" /\ phase["tailLogs"] = "http"
     /\ pc'["tailLogs"] # pc["tailLogs"] => logOffset' = logOffset]_vars

\* tailLogs showed the end of a log of more than LOG_SIZE lines while the
\* cursor was past 0.
C23_Witness ==
  /\ Done("tailLogs")
  /\ obs["tailLogs"].result = "shown"
  /\ logsL.probe > LOG_SIZE
  /\ logsL.fetches[2].from = logsL.probe - LOG_SIZE
  /\ logOffset > 0

\* C24: when getLogs ('Show Livy Logs') has just displayed the lines [0, n) of
\* the active session's log and nextLogs ('Next Livy Logs') is called next, it
\* asks for the log from offset n.
C24_NextContinuesShow ==
  [][(/\ Done("getLogs")
      /\ obs["getLogs"].result = "shown"
      /\ logsL.res.from = 0
      /\ pc["nextLogs"] = "idle"
      /\ pc'["nextLogs"] = "getLogs")
     => logsL'.fetches[1].from = logsL.res.n]_vars

\* C25: the header a request is sent with is that of the configured method
\* and of no other: none, and a method that is not known, send no
\* Authorization header and negotiate nothing; basic sends 'Basic' and the
\* base64 digits of `username:password` (every byte of it is read back from
\* the digits, groups are filled up with zero bits and '='); bearer sends
\* 'Bearer' and the token; kerberos sends 'Negotiate' and a token negotiated
\* during this call for the configured principal or, when that is empty, for
\* HTTP@<hostname of the url>.
C25_HeaderOfMode ==
  LET h == wire.header
      content == credentials.username \o <<58>> \o credentials.password
      IsBase64Of(e, c) ==
        /\ Len(e) = 4 * ((Len(c) + 2) \div 3)
        /\ \A i \in 1..Len(e) : e[i] \in 0..64
        /\ \A i \in 1..Len(c) :
             LET k == 4 * ((i - 1) \div 3)
                 r == (i - 1) % 3
             IN  /\ e[k + 1] < 64 /\ e[k + 2] < 64
                 /\ r = 0 => c[i] = e[k + 1] * 4 + (e[k + 2] \div 16)
                 /\ r = 1 => e[k + 3] < 64
                             /\ c[i] = (e[k + 2] % 16) * 16 + (e[k + 3] \div 4)
                 /\ r = 2 => e[k + 4] < 64
                             /\ c[i] = (e[k + 3] % 4) * 64 + e[k + 4]
        /\ Len(c) % 3 = 1 => /\ e[Len(e) - 1] = 64 /\ e[Len(e)] = 64
                             /\ e[Len(e) - 2] % 16 = 0
        /\ Len(c) % 3 = 2 => e[Len(e)] = 64 /\ e[Len(e) - 1] % 4 = 0
  IN  wire.exchanges >= 1 =>
        /\ authMethod \notin {"basic", "bearer", "kerberos"} => h = <<>>
        /\ authMethod = "basic" =>
             Len(h) = 2 /\ h[1] = "Basic" /\ IsBase64Of(h[2], content)
        /\ authMethod = "bearer" => h = <<"Bearer", credentials.bearerToken>>
        /\ authMethod = "kerberos" =>
             h = <<"Negotiate", IF kerberosServicePrincipal # ""
                                  THEN kerberosServicePrincipal
                                  ELSE "HTTP@livy">>
        /\ wire.negotiated = IF authMethod = "kerberos" THEN 1 ELSE 0

\* A request went out with basic credentials whose `username:password` does
\* not fill its last group of three bytes.
C25_Witness ==
  /\ wire.exchanges = 1
  /\ authMethod = "basic"
  /\ Len(credentials.username \o <<58>> \o credentials.password) % 3 # 0
  /\ Len(wire.header[2]) = 8

\* C26: a call of request() that has settled made exactly one HTTP exchange;
\* it resolved only on a response with a status in 200..299, with no value
\* when the body is empty and with the parsed JSON otherwise; a response with
\* any other status rejected it with a LivyApiError of that status and raw
\* body; a 2xx body that is not empty and not valid JSON rejected it with a
\* LivyApiError; a connection error rejected it with the transport's error.
C26_OneExchange ==
  LET NonBlank(t) == t # " "
      Valid(raw) == SelectSeq(raw, NonBlank) = <<"{", "}">>
      ok == wire.statusCode >= 200 /\ wire.statusCode <= 299
      apiError == [kind |-> "LivyApiError", statusCode |-> wire.statusCode,
                   body |-> wire.rawBody]
  IN  /\ wire.exchanges <= 1
      /\ wire.pc = "settled" =>
           /\ wire.exchanges = 1
           /\ wire.outcome = "resolved" =>
                /\ wire.event = "response" /\ ok
                /\ IF wire.rawBody = <<>>
                     THEN wire.value = "undefined"
                     ELSE Valid(wire.rawBody) /\ wire.value = "object"
           /\ (wire.event = "response" /\ ~ok) =>
                wire.outcome = "rejected" /\ wire.error = apiError
           /\ (wire.event = "response" /\ ok /\ wire.rawBody # <<>>
                 /\ ~Valid(wire.rawBody)) =>
                wire.outcome = "rejected" /\ wire.error = apiError
           /\ wire.event = "error" =>
                wire.outcome = "rejected" /\ wire.error.kind = "transport"

\* C26, amended: a call of request() makes at most one HTTP exchange: none
\* when the Kerberos negotiation failed, which rejects it, and exactly one in
\* every other settled call; it resolved only on a response with a status in
\* 200..299, with no value when the body is empty or all blanks and with the
\* parsed JSON otherwise; a response with any other status rejected it with a
\* LivyApiError of that status and raw body; a 2xx body that is neither blank
\* nor valid JSON rejected it with a LivyApiError; a connection error rejected
\* it with the transport's error.
C26_AtMostOneExchange ==
  LET NonBlank(t) == t # " "
      Blank(raw) == SelectSeq(raw, NonBlank) = <<>>
      Valid(raw) == SelectSeq(raw, NonBlank) = <<"{", "}">>
      ok == wire.statusCode >= 200 /\ wire.statusCode <= 299
      apiError == [kind |-> "LivyApiError", statusCode |-> wire.statusCode,
                   body |-> wire.rawBody]
  IN  /\ wire.exchanges <= 1
      /\ wire.pc = "settled" =>
           /\ wire.exchanges = IF wire.event = "negotiation" THEN 0 ELSE 1
           /\ wire.event = "negotiation" =>
                authMethod = "kerberos" /\ wire.outcome = "rejected"
           /\ wire.outcome = "resolved" =>
                /\ wire.event = "response" /\ ok
                /\ IF Blank(wire.rawBody)
                     THEN wire.value = "undefined"
                     ELSE Valid(wire.rawBody) /\ wire.value = "object"
           /\ (wire.event = "response" /\ ~ok) =>
                wire.outcome = "rejected" /\ wire.error = apiError
           /\ (wire.event = "response" /\ ok /\ ~Blank(wire.rawBody)
                 /\ ~Valid(wire.rawBody)) =>
                wire.outcome = "rejected" /\ wire.error = apiError
           /\ wire.event = "error" =>
                wire.outcome = "rejected" /\ wire.error.kind = "transport"

\* A 2xx response whose body is not valid JSON rejected the call.
C26_Witness ==
  /\ wire.pc = "settled"
  /\ wire.exchanges = 1
  /\ wire.statusCode = 299
  /\ wire.rawBody = <<"{">>
  /\ wire.outcome = "rejected"
  /\ wire.error.kind = "LivyApiError"

\* A request of a command-level operation failed: the step in which the
\* operation takes the rejection of the client's promise.
RequestFailed ==
  \/ CreateRejected \/ ConnectRejected \/ KillRejected \/ KillAllListRejected
  \/ KillAllDeleteRejected \/ RestoreRejected \/ ExecRejected \/ ExecRefreshRejected
  \/ NextLogsRejected \/ TailProbeRejected \/ GetLogsRejected \/ ListSessionsRejected

\* An error message is shown in this step, or killAllSessions writes its line
\* about the failed delete to the log.
Reported ==
  \/ \E op \in Ops : obs'[op].errs = obs[op].errs + 1
  \/ /\ Len(killAllL'.settled) = Len(killAllL.settled) + 1
     /\ killAllL'.settled[Len(killAllL'.settled)] = "failed"

C28_PollsSequential ==
  [][\A op \in {"createSession", "executeCode"} :
       LET poll == IF op = "createSession" THEN "getSession" ELSE "getStatement"
           issued == /\ pc'[op] \in ClientMethods
                     /\ phase'[op] \in {"auth", "http"}
                     /\ pc'[op] # pc[op] \/ obs'[op].reqs # obs[op].reqs
       IN  /\ issued => phase[op] = "none" \/ (phase[op] = "http" /\ pc'[op] # pc[op])
           /\ (issued /\ pc'[op] = poll) => pc[op] = "delay"]_vars

\* createSession ended in success after two polls.
C28_Witness ==
  /\ Done("createSession")
  /\ obs["createSession"].result = "success"
  /\ obs["createSession"].reqs["getSession"] = 2

\* C29: under a fair schedule every createSession that has begun ends; one
\* that was not cancelled, met no failed request and last saw its session in
\* none of idle, dead, error, killed ends with the timeout outcome, and only
\* after the deadline has passed; executeCode has no such outcome.
C29_CreateTerminates ==
  /\ (pc["createSession"] \notin {"idle", "done"}) ~> Done("createSession")
  /\ [](Done("createSession") =>
          LET r == obs["createSession"].result
          IN  /\ r = "timeout" => createL.expired
              /\ (/\ ~cancelled["createSession"]
                  /\ r # "error"
                  /\ createL.current # Null
                  /\ ~IsReady(createL.current)
                  /\ ~IsFailed(createL.current))
                 => r = "timeout")
  /\ [](obs["executeCode"].result # "timeout")

\* createSession ended with the timeout outcome after at least one poll.
C29_Witness ==
  /\ Done("createSession")
  /\ obs["createSession"].result = "timeout"
  /\ obs["createSession"].reqs["getSession"] >= 1
  /\ ~cancelled["createSession"]

\* C30: when the cancel button is pressed while createSession or executeCode
\* waits in an inter-poll delay, that very step ends the delay and with it the
\* invocation, with no request issued; and an invocation cancelled in a delay
\* has issued no poll beyond those issued before the cancellation.
C30_DelayCancellable ==
  [][\A op \in {"createSession", "executeCode"} :
       LET poll == IF op = "createSession" THEN "getSession" ELSE "getStatement"
       IN  /\ (pc[op] = "delay" /\ ~cancelled[op] /\ cancelled'[op])
                => /\ Done(op)'
                   /\ obs'[op].reqs = obs[op].reqs
           /\ obs'[op].cancelAt[1] = "delay"
                => /\ Done(op)'
                   /\ obs'[op].reqs[poll] = obs'[op].cancelAt[3]]_vars

\* executeCode was cancelled in the delay that followed its first poll.
C30_Witness ==
  /\ Done("executeCode")
  /\ cancelled["executeCode"]
  /\ obs["executeCode"].cancelAt[1] = "delay"
  /\ obs["executeCode"].cancelAt[3] = 1
  /\ obs["executeCode"].reqs["getStatement"] = 1

\* C31: every call of initializeClient made by generateSpnegoToken has a
\* numeric `flags` among its options, 0 when delegate is false and with the
\* GSS_C_DELEG_FLAG bit set when delegate is true, and has GSS_MECH_OID_SPNEGO
\* as its mechOID.
C31_FlagsExplicit ==
  \A i \in DOMAIN wire.initializeClient :
    LET options == wire.initializeClient[i]
    IN  /\ options.mechOID = GSS_MECH_OID_SPNEGO
        /\ "flags" \in DOMAIN options
        /\ ~wire.delegate => options.flags = 0
        /\ wire.delegate => (options.flags \div GSS_C_DELEG_FLAG) % 2 = 1

\* C32: killAllSessions has called delete only if the prompt was answered
\* 'Kill All'; and when it ended because the list request failed, the list
\* was empty or the prompt was closed otherwise, it called no delete, fired no
\* 'session changed', and left handle, saved id and cursor as they were.
C32_KillAllNeedsConfirmation ==
  LET o == obs["killAllSessions"]
  IN  /\ (o.reqs["deleteSession"] > 0 \/ killAllL.deleted # <<>>) =>
           killAllL.answer = "Kill All"
      /\ (Done("killAllSessions") /\ killAllL.answer # "Kill All") =>
           /\ o.result \in {"error", "empty", "declined"}
           /\ o.reqs["deleteSession"] = 0
           /\ killAllL.deleted = <<>>
           /\ o.changed = <<>>
           /\ Untouched("killAllSessions")
      /\ o.result \in {"error", "empty", "declined"} => killAllL.answer # "Kill All"
      /\ o.result = "empty" => killAllL.sessions = <<>>
      /\ o.result = "declined" => killAllL.sessions # <<>>

\* The prompt of killAllSessions was dismissed while a session was active.
C32_Witness ==
  /\ Done("killAllSessions")
  /\ obs["killAllSessions"].result = "declined"
  /\ killAllL.answer = "undefined"
  /\ activeSession # Null

\* C33: a connectToExisting(id) that has ended made one getSession request
\* and no other request; when the fetch succeeded the fetched session, in
\* whatever state, is the active session, the cursor is 0, the saved id is id
\* and 'session changed' was fired once, with that session; when the fetch
\* failed, handle, saved id and cursor are what they were and nothing was fired.
C33_ConnectById ==
  LET o == obs["connectToExisting"]
      Others == ClientMethods \ {"getSession"}
  IN  (Done("connectToExisting") /\ o.reqs["listSessions"] = 0) =>
        /\ o.reqs["getSession"] = 1
        /\ \A m \in Others : o.reqs[m] = 0
        /\ o.result \in {"connected", "error"}
        /\ o.result = "connected" =>
             /\ connectL.session.id = connectL.sessionId
             /\ activeSession = connectL.session
             /\ logOffset = 0
             /\ savedId = connectL.sessionId
             /\ o.changed = <<connectL.session>>
        /\ o.result = "error" =>
             /\ Untouched("connectToExisting")
             /\ o.changed = <<>>
             /\ o.errs = 1

\* connectToExisting(id) connected to a session that is dead, with the cursor
\* past 0 before.
C33_Witness ==
  /\ Done("connectToExisting")
  /\ obs["connectToExisting"].reqs["listSessions"] = 0
  /\ obs["connectToExisting"].result = "connected"
  /\ activeSession.state = "dead"
  /\ obs["connectToExisting"].pre.offset > 0

\* C34: Restart Session kills then recreates.  While the delete of the old
\* session is pending no create request has been made; the create payload
\* carries the kind and the name of the old session; and when the command has
\* finished the handle is empty or is the idle session createSession
\* installed, and is not the snapshot of the old session.
C34_RestartRecreates ==
  /\ restartL.pc = "killSession" =>
       /\ pc["createSession"] = "idle"
       /\ obs["createSession"].reqs["createSession"] = 0
  /\ restartL.pc \in {"createSession", "done"} /\ restartL.confirm = "Restart" =>
       /\ killL.deleted \in {"killed", "failed"}
       /\ obs["killSession"].reqs["deleteSession"] = 1
       /\ restartL.payload.kind = restartL.kind
       /\ restartL.payload.name = restartL.name
  /\ restartL.pc = "done" /\ restartL.confirm = "Restart" =>
       \/ activeSession = Null
       \/ /\ activeSession = createL.current
          /\ activeSession.state = "idle"
          /\ obs["createSession"].changed = <<activeSession>>

\* C35: with one operation at a time, a 'session changed' notification carries
\* the value the handle has when it is fired, and an operation that changed
\* the handle has notified of it by the time it completes: once an operation
\* has completed, the session it delivered last is the handle, and if it
\* delivered none the handle is what it was when the operation began.
C35_ObserversFollowHandle ==
  \A op \in Ops :
    LET changed == obs[op].changed
    IN  /\ changed # <<>> => changed[Len(changed)] = activeSession
        /\ Done(op) /\ changed = <<>> => activeSession = obs[op].pre.active

C35_Witness ==
  /\ Done("killSession")
  /\ obs["killSession"].pre.active # Null
  /\ activeSession = Null
  /\ obs["killSession"].changed = <<Null>>

\* C36: with one operation at a time and restoreSession the first of them,
\* whenever no operation is in flight the persisted session id is the id of
\* the active session, or there is neither.
C36_SavedIdIsHandleId ==
  Quiescent => savedId = activeSession.id

C36_Witness ==
  /\ Quiescent
  /\ activeSession # Null
  /\ savedId = activeSession.id
  /\ logOffset > 0

\* C37: when a command overlaps with executeCode, the refresh at the end of
\* executeCode writes the handle only if the handle is still bound to the
\* session the statement was submitted to, and does not make the id of the
\* handle differ from the persisted id.
C37_RefreshOnlyIfStillBound ==
  [][/\ pc["executeCode"] = "getSession"
     /\ pc'["executeCode"] = "done"
     /\ activeSession' # activeSession
     => /\ activeSession.id = execL.sessionId
        /\ savedId = activeSession.id => savedId' = activeSession'.id]_vars

\* C38: when the fetch of the start-up restoreSession settles after a command
\* has bound the handle to another session than the saved one, the restore
\* leaves the handle as it is if the fetch succeeded and leaves the persisted
\* id as it is if the fetch failed.
C38_LateRestoreYields ==
  [][/\ pc["restoreSession"] = "getSession"
     /\ pc'["restoreSession"] # "getSession"
     /\ activeSession # Null
     /\ activeSession.id # restoreL.savedId
     => /\ activeSession' = activeSession
        /\ savedId' = savedId]_vars

\* C39: createSession does not end on a fetched state other than idle, dead,
\* error and killed: after such a state it waits and polls again, so a call
\* that has ended with such a state as its last snapshot ended by the
\* deadline, by cancellation (seen at a check of the token or as the rejection
\* of the delay) or by a failed request; it ends as a failure only
\* on dead, error or killed, and installs only an idle session.
C39_OtherStatesPollAgain ==
  LET o == obs["createSession"]
      last == createL.current
      other == last.state \in {"not_started", "starting", "busy",
                               "shutting_down", "success"}
  IN  /\ pc["createSession"] = "update" => last.state = "idle"
      /\ Done("createSession") /\ o.result = "failed" =>
           last.state \in {"dead", "error", "killed"}
      /\ Done("createSession") /\ other =>
           /\ o.result \in {"timeout", "cancelled", "rejected", "error"}
           /\ o.result = "timeout" => createL.expired
           /\ o.result \in {"cancelled", "rejected"} => cancelled["createSession"]

\* A creation that fetched `success`, polled again and then timed out.
C39_Witness ==
  /\ Done("createSession")
  /\ createL.current.state = "success"
  /\ obs["createSession"].reqs["getSession"] = 2
  /\ obs["createSession"].result = "timeout"

====
